---- MODULE Spec2Model ----
(***************************************************************************)
(* Model of the judging pipeline of yaoj: the dispatcher handlers          *)
(* (new_job, rejudge_job, cancel_job, update_contest, get_rank_list,       *)
(* get_jobs), the job and contest tables, the work queue "judger", the     *)
(* judger worker processes and the judge function.                         *)
(*                                                                         *)
(* Atomicity: every store call (one SQL statement), every reading of the   *)
(* clock and every queue operation is one step.  The handlers run no       *)
(* transaction, so the steps of concurrent handlers and of the worker      *)
(* processes interleave freely.                                            *)
(***************************************************************************)
EXTENDS Integers, Sequences, FiniteSets

(***************************************************************************)
(* Bounds of the model.                                                    *)
(***************************************************************************)
MaxCalls == 2        \* dispatcher requests (new_job, rejudge, cancel) per run
NumWorkers == 2      \* judger processes spawned by the host process
MaxCrashes == 1      \* worker processes killed from outside (not by a panic)
MaxTime == 3         \* the clock runs from 0 to MaxTime
MaxRaceCalls == 4    \* requests of the rejudge and cancel specification,
                     \* the new_job that submitted the job included
MaxRankJobs == 3     \* jobs of the ranklist specification
MaxRankTime == 1     \* their created times run from 0 to MaxRankTime
MaxRankCalls == 1    \* ranklist requests per run
MaxLimitCalls == 3   \* requests of the submission limit specification

Workers == 1..NumWorkers

(***************************************************************************)
(* JobStatus and JobResult (api/jobs.rs).                                  *)
(***************************************************************************)
JobStatus == {"Queueing", "Running", "Finished", "Canceled"}

JobResult ==
  {"Waiting", "Running", "Accepted", "CompilationError", "CompilationSuccess",
   "WrongAnswer", "RuntimeError", "TimeLimitExceeded", "MemoryLimitExceeded",
   "SystemError", "SpjError", "Skipped"}

(***************************************************************************)
(* The configuration (config.rs): problems with their type and cases.      *)
(* A case is its score and its time limit (0 = no limit).  The four        *)
(* problems cover the four problem types; problem 0 is the two-case        *)
(* problem of the end-to-end scenarios.                                    *)
(***************************************************************************)
Case(score, time_limit) == [score |-> score, time_limit |-> time_limit]

Problems ==
  <<[typ |-> "Standard",       cases |-> <<Case(50, 1), Case(50, 0)>>],
    [typ |-> "Strict",         cases |-> <<Case(100, 1)>>],
    [typ |-> "Spj",            cases |-> <<Case(100, 1)>>],
    [typ |-> "DynamicRanking", cases |-> <<Case(100, 0)>>]>>

\* Problem ids are 0-based; get_problem finds the problem with the given id.
ProblemIds == {i - 1 : i \in DOMAIN Problems}
get_problem(pid) == Problems[pid + 1]

\* The problems the dispatcher receives submissions for in the scheduler
\* specification (the judge specification covers every problem).
SubmitPids == {0, 2}

\* The configured languages (config.languages) and get_lang.
Languages == {"Rust"}
get_lang(lang) == lang \in Languages

problem_exists(pid) == pid \in ProblemIds

\* A submission (api/jobs.rs): language, problem_id, user_id, contest_id.
Submission(lang, pid, uid, cid) == [lang |-> lang, pid |-> pid, uid |-> uid, cid |-> cid]

NoSub == Submission("", -1, -1, -1)

(***************************************************************************)
(* The user table (persistent/models/users.rs): the ids of the users.      *)
(***************************************************************************)
Users == {0, 1, 2}

does_user_exist(uid) == uid \in Users

(***************************************************************************)
(* The contest table (persistent/models/contests.rs, api/contests.rs).     *)
(* A stored contest keeps problem_ids and user_ids as text, the decimal    *)
(* ids joined by commas; a text is a sequence of characters.               *)
(***************************************************************************)
Digit == <<"0", "1", "2", "3", "4", "5", "6", "7", "8", "9">>

\* u32::to_string
RECURSIVE to_string(_)
to_string(n) ==
  IF n < 10 THEN <<Digit[n + 1]>>
  ELSE to_string(n \div 10) \o <<Digit[(n % 10) + 1]>>

\* Vec<String>::join(",")
RECURSIVE join(_)
join(strs) ==
  IF strs = <<>> THEN <<>>
  ELSE IF Len(strs) = 1 THEN strs[1]
  ELSE strs[1] \o <<",">> \o join(Tail(strs))

\* str::split(','): the pieces between the commas; the empty text has one
\* piece, the empty text.
RECURSIVE split(_)
split(text) ==
  LET commas == {i \in 1..Len(text) : text[i] = ","}
  IN IF commas = {} THEN <<text>>
     ELSE LET i == CHOOSE k \in commas : \A m \in commas : k <= m
          IN <<SubSeq(text, 1, i - 1)>> \o split(SubSeq(text, i + 1, Len(text)))

\* str::parse::<u32>() (u32::from_str): one leading '+' is accepted; Err
\* (here ParseErr) for the empty text, for a sign with no digit after it,
\* for a text with a character that is not a digit, and for a number above
\* u32::MAX = 4294967295, found from the digits.  (Of the numbers that
\* parse, the model checker can hold those up to 2^31 - 1.)
ParseErr == NoSub.pid

RECURSIVE parse_digits(_)
parse_digits(text) ==
  IF text = <<>> THEN 0
  ELSE parse_digits(SubSeq(text, 1, Len(text) - 1)) * 10
         + (CHOOSE d \in 0..9 : Digit[d + 1] = text[Len(text)])

parse(text) ==
  LET digits == IF text # <<>> /\ text[1] = "+" THEN Tail(text) ELSE text
      value(i) == CHOOSE d \in 0..9 : Digit[d + 1] = digits[i]
      zeros == {i \in 0..Len(digits) : \A k \in 1..i : digits[k] = "0"}
      lead == CHOOSE i \in zeros : \A k \in zeros : k <= i
      MAX == <<4, 2, 9, 4, 9, 6, 7, 2, 9, 5>>
      len == Len(digits) - lead
      overflow ==
        \/ len > Len(MAX)
        \/ /\ len = Len(MAX)
           /\ \E i \in 1..len :
                /\ value(lead + i) > MAX[i]
                /\ \A k \in 1..(i - 1) : value(lead + k) = MAX[k]
  IN IF digits = <<>> \/ \E i \in 1..Len(digits) : \A d \in 1..10 : Digit[d] # digits[i]
       THEN ParseErr
     ELSE IF overflow THEN ParseErr
     ELSE parse_digits(digits)

\* A contest of the API: ids are lists.
Contest(id, from, to, problem_ids, user_ids, submission_limit) ==
  [id |-> id, from |-> from, to |-> to, problem_ids |-> problem_ids,
   user_ids |-> user_ids, submission_limit |-> submission_limit]

\* From<api::contests::Contest> for models::Contest.
ContestToRow(contest) ==
  [contest EXCEPT
     !.problem_ids = join([i \in 1..Len(@) |-> to_string(@[i])]),
     !.user_ids = join([i \in 1..Len(@) |-> to_string(@[i])])]

\* From<models::Contest> for api::contests::Contest: split, parse, unwrap.
\* ok is FALSE when an unwrap panics.
ParseIds(text) == [i \in 1..Len(split(text)) |-> parse(split(text)[i])]

ContestFromRow(row) ==
  LET pids == ParseIds(row.problem_ids)
      uids == ParseIds(row.user_ids)
  IN [ok |-> /\ \A i \in 1..Len(pids) : pids[i] # ParseErr
             /\ \A i \in 1..Len(uids) : uids[i] # ParseErr,
      contest |-> [row EXCEPT !.problem_ids = pids, !.user_ids = uids]]

\* The contest of a request that has loaded none.
NoContest == Contest(NoSub.cid, 0, 0, <<>>, <<>>, 0)

\* The stored contests, as update_contest stored them: ids are dense from
\* 1.  Contest 1 is open from 1 to 2 to user 0 on problem 0, one
\* submission each; contest 2 is open at all times to users 0 and 1 on
\* problems 0 and 1; contest 3 was stored with no user.
ApiContests ==
  <<Contest(1, 1, 2, <<0>>, <<0>>, 1),
    Contest(2, 0, MaxTime, <<0, 1>>, <<0, 1>>, 2),
    Contest(3, 0, MaxTime, <<0>>, <<>>, 1)>>

Contests == [i \in 1..Len(ApiContests) |-> ContestToRow(ApiContests[i])]

Contains(list, x) == \E i \in 1..Len(list) : list[i] = x

\* The elements of a list.
Elems(list) == {list[i] : i \in 1..Len(list)}

(***************************************************************************)
(* A row of the job table.  cases is the sequence of CaseResult, here its  *)
(* id and result.                                                          *)
(***************************************************************************)
CaseResult(id, result) == [id |-> id, result |-> result]

NoRow == [id |-> -1, lang |-> "", pid |-> -1, uid |-> -1, cid |-> -1,
          created |-> -1, updated |-> -1,
          state |-> "Queueing", result |-> "Waiting", score |-> 0, cases |-> <<>>]
\* The delivery of a worker that holds none.
NoJob == NoRow.id

VARIABLES
  jobs,      \* the job table: a set of rows
  queue,     \* the work queue: job id -> number of ready messages
  calls,     \* the dispatcher requests, in the order they started
  wk,        \* the judger processes
  crashes,   \* worker processes killed from outside so far
  now,       \* the clock (Utc::now)
  neutral,   \* the sum of no f64 in the standard library of the build
  contests   \* the contest table: the rows in the order of their ids, from 1

vars == <<jobs, queue, calls, wk, crashes, now, neutral, contests>>

\* does_contest_exist: find(cid).first(conn).optional()?.is_some()
does_contest_exist(cid) == cid \in DOMAIN contests

\* get_contest of a contest that exists.
get_contest(cid) == contests[cid]

\* The ids in the paths of the rejudge and cancel requests.
JobIds == 0..(MaxCalls - 1)

\* The ids a message of the queue can carry: queue_job publishes the id
\* of any stored job, and a run stores the jobs of its first state and one
\* per new_job request, so the range covers every id a run can store.
QueueIds == 0..(MaxCalls + MaxLimitCalls)

(***************************************************************************)
(* Job store (persistent/models/jobs.rs).                                  *)
(***************************************************************************)
jobs_count == Cardinality(jobs)

does_job_exist(jid) == \E r \in jobs : r.id = jid

\* The mutant of get_submission_count: a canceled job does not count.
get_submission_count_not_canceled(table, uid, pid, cid) ==
  Cardinality({r \in table : /\ r.uid = uid /\ r.pid = pid /\ r.cid = cid
                             /\ r.state # "Canceled"})

\* get_submission_count: the jobs of the user on the problem in the
\* contest; the state of the job is not looked at.
get_submission_count(table, uid, pid, cid) ==
  Cardinality({r \in table : r.uid = uid /\ r.pid = pid /\ r.cid = cid})

\* get_job: the rows with the given id (one, the id being the primary key).
get_job(jid) == {r \in jobs : r.id = jid}

\* The mutant of InsertAllowed: a table without the primary key.
InsertAllowedNoKey(table, row) == TRUE

\* new_job (store): the insert fails when a row with this id exists,
\* id being the primary key of the table.
InsertAllowed(table, row) == ~ \E r \in table : r.id = row.id

\* An update_job that loses the write.
update_job_lost(table, row) == table

\* update_job: save_changes, UPDATE ... WHERE id = row.id of every column.
\* The row with this id is replaced; when no row has this id nothing is
\* written (and the row cannot be loaded: NotFound).
update_job(table, row) ==
  IF \E r \in table : r.id = row.id
    THEN {r \in table : r.id # row.id} \cup {row}
    ELSE table


(***************************************************************************)
(* Dispatcher (api/jobs.rs).  A call is a record: the handler, the place   *)
(* it has reached, the state in which it read the job, the job it is      *)
(* writing (or has returned) and its response; for new_job the submission, *)
(* the message of the error, the contest it loaded and the time it read    *)
(* for the time window; for update_contest the row it writes and the      *)
(* contest it answers with; for rejudge_job and cancel_job the id in the   *)
(* path; for get_jobs the filter and the id it found for the user_name;    *)
(* for get_rank_list the contest id, scoring rule and tie breaker, the     *)
(* contest, users and problems it loaded, the user (or row) and the        *)
(* problem its loop is at, the maps and scores read so far, the sorted     *)
(* rank_list and the response.                                             *)
(***************************************************************************)
NoLoop ==
  [users |-> <<>>, problems |-> <<>>, i |-> 0, k |-> 0, maps |-> <<>>, scores |-> <<>>]

Call(op, pc, seen, row, ret) ==
  [op |-> op, pc |-> pc, seen |-> seen, row |-> row, ret |-> ret,
   sub |-> NoSub, msg |-> "", at |-> NoRow.created, jid |-> NoJob,
   contest |-> NoContest, uid |-> <<>>,
   args |-> [cid |-> NoJob, rule |-> "", tb |-> ""],
   loop |-> NoLoop, rank_list |-> <<>>, resp |-> <<>>]

\* The cases of a new job: ids 0..=problem.cases.len(), all Waiting.
WaitingCases(n) == [i \in 1..n |-> CaseResult(i - 1, "Waiting")]

\* new_job builds the job from jobs_count, the submission and the time.
NewJobRow(cnt, sub, created) ==
  [id |-> cnt, lang |-> sub.lang, pid |-> sub.pid, uid |-> sub.uid, cid |-> sub.cid,
   created |-> created, updated |-> created,
   state |-> "Queueing", result |-> "Waiting", score |-> 0,
   cases |-> WaitingCases(Len(get_problem(sub.pid).cases) + 1)]

\* The mutant of RejudgeRow: one Waiting case for every case of the problem,
\* none for the compilation.
RejudgeRowWithoutCompilation(job) ==
  [job EXCEPT !.state = "Queueing", !.result = "Waiting", !.score = 0,
              !.cases = WaitingCases(Len(job.cases) - 1), !.updated = now]

\* rejudge_job resets state, result, score and cases, sets updated_time to
\* the current time and keeps the rest.
RejudgeRow(job) ==
  [job EXCEPT !.state = "Queueing", !.result = "Waiting", !.score = 0,
              !.cases = WaitingCases(Len(job.cases)), !.updated = now]

\* The outcome of a check of new_job: the reason of the error (or Ok, or a
\* panic) and what its message says.
Outcome(reason, msg) == [reason |-> reason, msg |-> msg]

\* The mutant of HasEnded: the end of the contest is exclusive.
HasEndedAtTo(contest, time) == time >= contest.to

\* new_job, the time window of the contest: now < contest.from, and
\* now > contest.to.
NotYetBegun(contest, time) == time < contest.from
HasEnded(contest, time) == time > contest.to

\* new_job, the checks before the contest: the language and the problem
\* of the configuration, then does_user_exist.
SubmissionCheck(sub) ==
  IF ~ get_lang(sub.lang) THEN Outcome("NotFound", "No such language")
  ELSE IF ~ problem_exists(sub.pid) THEN Outcome("NotFound", "No such problem")
  ELSE IF ~ does_user_exist(sub.uid) THEN Outcome("NotFound", "No such user")
  ELSE Outcome("Ok", "")

\* new_job, get_contest of a submission to a contest, the conversion of
\* the row and the membership of the user and of the problem.
ContestCheck(sub) ==
  IF ~ does_contest_exist(sub.cid) THEN Outcome("NotFound", "No such contest")
  ELSE LET conv == ContestFromRow(get_contest(sub.cid))
           contest == conv.contest
       IN IF ~ conv.ok THEN Outcome("panic", "unwrap")
          ELSE IF ~ Contains(contest.user_ids, sub.uid)
            THEN Outcome("InvalidArgument", "User not in contest")
          ELSE IF ~ Contains(contest.problem_ids, sub.pid)
            THEN Outcome("InvalidArgument", "Problem not in contest")
          ELSE Outcome("Ok", "")

\* new_job, the time window of the contest it loaded at the time it reads.
WindowCheck(contest, time) ==
  IF NotYetBegun(contest, time) THEN Outcome("InvalidArgument", "hasn't yet begun")
  ELSE IF HasEnded(contest, time) THEN Outcome("InvalidArgument", "has already ended")
  ELSE Outcome("Ok", "")

\* new_job, the submission limit of the contest it loaded.
LimitCheck(sub, contest, table) ==
  IF get_submission_count(table, sub.uid, sub.pid, sub.cid) >= contest.submission_limit
    THEN Outcome("RateLimit", "Submission limit exceeded")
    ELSE Outcome("Ok", "")

\* The mutant of CancelGuard: cancel_job without the state check.
CancelGuardAny(job) == TRUE

\* Another mutant of CancelGuard: the cancel of a Canceled job goes on.
CancelGuardIdempotent(job) == job.state \in {"Queueing", "Canceled"}

\* cancel_job goes on only for a job it read as Queueing.
CancelGuard(job) == job.state = "Queueing"

\* The mutant of RejudgeGuard: rejudge_job without the state check.
RejudgeGuardAny(job) == TRUE

\* rejudge_job goes on only for a job it read as Finished.
RejudgeGuard(job) == job.state = "Finished"

\* A new_job that inserts the job before its checks.
NewJobCheckAfterInsert(sub, max) ==
  /\ Len(calls) < max
  /\ LET v == SubmissionCheck(sub)
     IN /\ calls' = Append(calls,
                      [Call("new_job",
                            IF v.reason # "Ok" THEN "done"
                            ELSE IF sub.cid # 0 THEN "contest" ELSE "created",
                            "None", NoRow, IF v.reason = "Ok" THEN "" ELSE v.reason)
                         EXCEPT !.sub = sub, !.msg = v.msg])
        /\ jobs' = jobs \cup {NewJobRow(jobs_count, sub, now)}
  /\ UNCHANGED <<queue, wk, crashes, now, neutral, contests>>

\* new_job, the first checks of the submission: the handler returns the
\* error of the first check that fails, or goes on, to the contest of the
\* submission when it names one.  max bounds the requests of a run.
NewJobCheck(sub, max) ==
  /\ Len(calls) < max
  /\ LET v == SubmissionCheck(sub)
     IN calls' = Append(calls,
                   [Call("new_job",
                         IF v.reason # "Ok" THEN "done"
                         ELSE IF sub.cid # 0 THEN "contest" ELSE "created",
                         "None", NoRow, IF v.reason = "Ok" THEN "" ELSE v.reason)
                      EXCEPT !.sub = sub, !.msg = v.msg])
  /\ UNCHANGED <<jobs, queue, wk, crashes, now, neutral, contests>>

\* new_job, get_contest: the contest is loaded once; the checks that
\* follow use the copy.  A panic of the handler leaves the request without
\* a response.
NewJobContest(c) ==
  /\ calls[c].op = "new_job" /\ calls[c].pc = "contest"
  /\ LET v == ContestCheck(calls[c].sub)
     IN calls' = [calls EXCEPT
          ![c].pc = IF v.reason = "Ok" THEN "window" ELSE "done",
          ![c].ret = IF v.reason = "Ok" THEN "" ELSE v.reason,
          ![c].msg = v.msg,
          ![c].contest = IF v.reason = "Ok"
                           THEN ContestFromRow(get_contest(calls[c].sub.cid)).contest
                           ELSE @]
  /\ UNCHANGED <<jobs, queue, wk, crashes, now, neutral, contests>>

\* new_job, `let now = Utc::now()` and the two comparisons with it.
NewJobWindow(c) ==
  /\ calls[c].op = "new_job" /\ calls[c].pc = "window"
  /\ LET v == WindowCheck(calls[c].contest, now)
     IN calls' = [calls EXCEPT
          ![c].pc = IF v.reason = "Ok" THEN "limit" ELSE "done",
          ![c].ret = IF v.reason = "Ok" THEN "" ELSE v.reason,
          ![c].msg = v.msg,
          ![c].at = now]
  /\ UNCHANGED <<jobs, queue, wk, crashes, now, neutral, contests>>

\* new_job, get_submission_count against the limit of the loaded contest.
NewJobLimit(c) ==
  /\ calls[c].op = "new_job" /\ calls[c].pc = "limit"
  /\ LET v == LimitCheck(calls[c].sub, calls[c].contest, jobs)
     IN calls' = [calls EXCEPT
          ![c].pc = IF v.reason = "Ok" THEN "created" ELSE "done",
          ![c].ret = IF v.reason = "Ok" THEN "" ELSE v.reason,
          ![c].msg = v.msg]
  /\ UNCHANGED <<jobs, queue, wk, crashes, now, neutral, contests>>

\* new_job, after the submission is checked: `let created = Utc::now()`.
\* The id of the job is not known yet.
NewJobCreated(c) ==
  /\ calls[c].op = "new_job" /\ calls[c].pc = "created"
  /\ calls' = [calls EXCEPT ![c].pc = "count",
                            ![c].row = NewJobRow(NoJob, calls[c].sub, now)]
  /\ UNCHANGED <<jobs, queue, wk, crashes, now, neutral, contests>>

\* new_job, jobs_count(): the job is built with the count as its id and
\* the time read before.  The insert is a later statement.
NewJobCount(c) ==
  /\ calls[c].op = "new_job" /\ calls[c].pc = "count"
  /\ calls' = [calls EXCEPT ![c].pc = "insert", ![c].row.id = jobs_count]
  /\ UNCHANGED <<jobs, queue, wk, crashes, now, neutral, contests>>

\* The clock advances.
Tick ==
  /\ now < MaxTime
  /\ now' = now + 1
  /\ UNCHANGED <<jobs, queue, calls, wk, crashes, neutral, contests>>

\* new_job: the insert.  A failing insert is retried with the same job, which
\* changes nothing; the call leaves the loop when the insert succeeds.
NewJobInsert(c) ==
  /\ calls[c].op = "new_job" /\ calls[c].pc = "insert"
  /\ InsertAllowed(jobs, calls[c].row)
  /\ jobs' = jobs \cup {calls[c].row}
  /\ calls' = [calls EXCEPT ![c].pc = "publish"]
  /\ UNCHANGED <<queue, wk, crashes, now, neutral, contests>>

\* The mutant of QueueJob: the message is published twice.
QueueJobTwice(c) ==
  /\ calls[c].pc = "publish"
  /\ queue' = [queue EXCEPT ![calls[c].row.id] = @ + 2]
  /\ calls' = [calls EXCEPT ![c].pc = "done", ![c].ret = "Ok"]
  /\ UNCHANGED <<jobs, wk, crashes, now, neutral, contests>>

\* queue_job, as called by new_job and by rejudge_job: the message is
\* published and the handler returns the job.
QueueJob(c) ==
  /\ calls[c].pc = "publish"
  /\ queue' = [queue EXCEPT ![calls[c].row.id] = @ + 1]
  /\ calls' = [calls EXCEPT ![c].pc = "done", ![c].ret = "Ok"]
  /\ UNCHANGED <<jobs, wk, crashes, now, neutral, contests>>

\* The mutant of QueueJobFails: the row of the job is deleted.
QueueJobFailsRollsBack(c) ==
  /\ calls[c].pc = "publish"
  /\ calls' = [calls EXCEPT ![c].pc = "done", ![c].ret = "External"]
  /\ jobs' = {r \in jobs : r.id # calls[c].row.id}
  /\ UNCHANGED <<queue, wk, crashes, now, neutral, contests>>

\* queue_job when the publish fails: the handler returns External.
QueueJobFails(c) ==
  /\ calls[c].pc = "publish"
  /\ calls' = [calls EXCEPT ![c].pc = "done", ![c].ret = "External"]
  /\ UNCHANGED <<jobs, queue, wk, crashes, now, neutral, contests>>

\* rejudge_job: does_job_exist.
RejudgeLoad(jid, max) ==
  /\ Len(calls) < max
  /\ IF ~ does_job_exist(jid)
       THEN calls' = Append(calls, [Call("rejudge_job", "done", "None", NoRow, "NotFound")
                                     EXCEPT !.jid = jid])
       ELSE calls' = Append(calls, [Call("rejudge_job", "get", "None", NoRow, "")
                                     EXCEPT !.jid = jid])
  /\ UNCHANGED <<jobs, queue, wk, crashes, now, neutral, contests>>

\* rejudge_job: get_job and the state guard.
RejudgeGet(c) ==
  /\ calls[c].op = "rejudge_job" /\ calls[c].pc = "get"
  /\ IF get_job(calls[c].jid) = {}
       THEN calls' = [calls EXCEPT ![c].pc = "done", ![c].ret = "NotFound"]
       ELSE \E job \in get_job(calls[c].jid) :
              IF ~ RejudgeGuard(job)
                THEN calls' = [calls EXCEPT ![c].pc = "done", ![c].seen = job.state,
                                            ![c].ret = "InvalidState"]
                ELSE calls' = [calls EXCEPT ![c].pc = "now", ![c].seen = job.state,
                                            ![c].row = job]
  /\ UNCHANGED <<jobs, queue, wk, crashes, now, neutral, contests>>

\* rejudge_job: the job to write is built from the job that was read, with
\* `updated_time: Utc::now()`.
RejudgeNow(c) ==
  /\ calls[c].op = "rejudge_job" /\ calls[c].pc = "now"
  /\ calls' = [calls EXCEPT ![c].pc = "update", ![c].row = RejudgeRow(calls[c].row)]
  /\ UNCHANGED <<jobs, queue, wk, crashes, now, neutral, contests>>

\* rejudge_job: the UPDATE of update_job (save_changes).
RejudgeUpdate(c) ==
  /\ calls[c].op = "rejudge_job" /\ calls[c].pc = "update"
  /\ jobs' = update_job(jobs, calls[c].row)
  /\ calls' = [calls EXCEPT ![c].pc = "select"]
  /\ UNCHANGED <<queue, wk, crashes, now, neutral, contests>>

\* rejudge_job: the SELECT of update_job (save_changes loads the row it
\* updated; the handler does not use it), then on to queue_job.
RejudgeSelect(c) ==
  /\ calls[c].op = "rejudge_job" /\ calls[c].pc = "select"
  /\ IF get_job(calls[c].jid) = {}
       THEN calls' = [calls EXCEPT ![c].pc = "done", ![c].ret = "NotFound"]
       ELSE calls' = [calls EXCEPT ![c].pc = "publish"]
  /\ UNCHANGED <<jobs, queue, wk, crashes, now, neutral, contests>>

\* cancel_job: get_job, the state guard and the job to write.
CancelLoad(jid, max) ==
  /\ Len(calls) < max
  /\ IF get_job(jid) = {}
       THEN calls' = Append(calls, [Call("cancel_job", "done", "None", NoRow, "NotFound")
                                     EXCEPT !.jid = jid])
       ELSE \E job \in get_job(jid) :
              IF ~ CancelGuard(job)
                THEN calls' = Append(calls, [Call("cancel_job", "done", job.state, NoRow,
                                                  "InvalidState") EXCEPT !.jid = jid])
                ELSE calls' = Append(calls, [Call("cancel_job", "update", job.state,
                                                  [job EXCEPT !.state = "Canceled"], "")
                                               EXCEPT !.jid = jid])
  /\ UNCHANGED <<jobs, queue, wk, crashes, now, neutral, contests>>

\* cancel_job: the UPDATE of update_job (save_changes).
CancelUpdate(c) ==
  /\ calls[c].op = "cancel_job" /\ calls[c].pc = "update"
  /\ jobs' = update_job(jobs, calls[c].row)
  /\ calls' = [calls EXCEPT ![c].pc = "select"]
  /\ UNCHANGED <<queue, wk, crashes, now, neutral, contests>>

\* cancel_job: the SELECT of update_job, and the handler returns.
CancelSelect(c) ==
  /\ calls[c].op = "cancel_job" /\ calls[c].pc = "select"
  /\ IF get_job(calls[c].jid) = {}
       THEN calls' = [calls EXCEPT ![c].pc = "done", ![c].ret = "NotFound"]
       ELSE calls' = [calls EXCEPT ![c].pc = "done", ![c].ret = "Ok"]
  /\ UNCHANGED <<jobs, queue, wk, crashes, now, neutral, contests>>

(***************************************************************************)
(* update_contest (api/contests.rs).  The contest of the request has an    *)
(* optional id, a sequence of at most one element.                         *)
(***************************************************************************)
\* user_count
user_count == Cardinality(Users)

\* The checks of update_contest: every problem is of the configuration,
\* every user id is below user_count.
UpdateContestCheck(contest) ==
  IF \E i \in 1..Len(contest.problem_ids) : ~ problem_exists(contest.problem_ids[i])
    THEN Outcome("NotFound", "Unknown problem")
  ELSE IF \E i \in 1..Len(contest.user_ids) : contest.user_ids[i] >= user_count
    THEN Outcome("NotFound", "Unknown user")
  ELSE Outcome("Ok", "")

\* update_contest: the checks, of which user_count reads the store.  With
\* an id the row is then updated, without one the id is taken from
\* contests_count.
UpdateContest(contest, max) ==
  /\ Len(calls) < max
  /\ LET v == UpdateContestCheck(contest)
         call(pc, ret, msg, row) ==
           [Call("update_contest", pc, "None", NoRow, ret) EXCEPT
              !.msg = msg, !.contest = row]
     IN IF v.reason # "Ok"
          THEN calls' = Append(calls, call("done", v.reason, v.msg, NoContest))
        ELSE IF contest.id = <<>>
          THEN calls' = Append(calls,
                 call("count", "", "", ContestToRow([contest EXCEPT !.id = 0])))
        ELSE calls' = Append(calls,
               call("update", "", "", ContestToRow([contest EXCEPT !.id = contest.id[1]])))
  /\ UNCHANGED <<jobs, queue, wk, crashes, now, neutral, contests>>

\* update_contest with an id: the UPDATE of models::update_contest
\* (save_changes), which changes the row of that id if there is one.
UpdateContestUpdate(c) ==
  /\ calls[c].op = "update_contest" /\ calls[c].pc = "update"
  /\ LET row == calls[c].contest
     IN contests' = IF does_contest_exist(row.id)
                      THEN [contests EXCEPT ![row.id] = row]
                      ELSE contests
  /\ calls' = [calls EXCEPT ![c].pc = "select"]
  /\ UNCHANGED <<jobs, queue, wk, crashes, now, neutral>>

\* format!("Contest {id} not found.")
RECURSIVE concat(_)
concat(strs) == IF strs = <<>> THEN "" ELSE strs[1] \o concat(Tail(strs))

ContestNotFound(id) == "Contest " \o concat(to_string(id)) \o " not found."

\* update_contest with an id: the SELECT of save_changes loads the row of
\* the id as it is stored then, or finds none; the response converts the
\* loaded row, which panics when a list of ids is empty.
UpdateContestSelect(c) ==
  /\ calls[c].op = "update_contest" /\ calls[c].pc = "select"
  /\ LET id == calls[c].contest.id
     IN IF ~ does_contest_exist(id)
          THEN calls' = [calls EXCEPT ![c].pc = "done", ![c].ret = "NotFound",
                                      ![c].msg = ContestNotFound(id)]
          ELSE IF ~ ContestFromRow(get_contest(id)).ok
            THEN calls' = [calls EXCEPT ![c].pc = "done", ![c].ret = "panic"]
          ELSE calls' = [calls EXCEPT
                 ![c].pc = "done", ![c].ret = "Ok",
                 ![c].resp = <<ContestFromRow(get_contest(id)).contest>>]
  /\ UNCHANGED <<jobs, queue, wk, crashes, now, neutral, contests>>

\* update_contest without an id: contests_count + 1 is the id.
UpdateContestCount(c) ==
  /\ calls[c].op = "update_contest" /\ calls[c].pc = "count"
  /\ calls' = [calls EXCEPT ![c].pc = "insert", ![c].contest.id = Len(contests) + 1]
  /\ UNCHANGED <<jobs, queue, wk, crashes, now, neutral, contests>>

\* update_contest without an id: new_contest, the insert.  It fails when a
\* row with this id has been inserted since the count was read, id being
\* the primary key.
UpdateContestInsert(c) ==
  /\ calls[c].op = "update_contest" /\ calls[c].pc = "insert"
  /\ LET row == calls[c].contest
     IN IF does_contest_exist(row.id)
          THEN /\ calls' = [calls EXCEPT ![c].pc = "done", ![c].ret = "External",
                                         ![c].msg = "Database error"]
               /\ UNCHANGED contests
          ELSE /\ contests' = Append(contests, row)
               /\ calls' = IF ContestFromRow(row).ok
                             THEN [calls EXCEPT
                                     ![c].pc = "done", ![c].ret = "Ok",
                                     ![c].resp = <<ContestFromRow(row).contest>>]
                             ELSE [calls EXCEPT ![c].pc = "done", ![c].ret = "panic"]
  /\ UNCHANGED <<jobs, queue, wk, crashes, now, neutral>>

(***************************************************************************)
(* Ranklist (api/contests.rs, persistent/models/jobs.rs).                  *)
(***************************************************************************)
ScoringRules == {"Latest", "Highest"}
TieBreakers == {"Default", "SubmissionTime", "SubmissionCount", "UserId"}

\* The jobs of the user on the problem in the contest.
SubmissionsOf(table, uid, pid, cid) ==
  {r \in table : r.uid = uid /\ r.pid = pid /\ r.cid = cid}

\* get_latest_submission: order by created_time desc, first.  Among jobs
\* with the same created_time the store may return any.
get_latest_submission(table, uid, pid, cid) ==
  {r \in SubmissionsOf(table, uid, pid, cid) :
     \A q \in SubmissionsOf(table, uid, pid, cid) : q.created <= r.created}

\* The mutant of get_highest_submission: of the jobs with the highest score
\* the latest.
get_highest_submission_latest(table, uid, pid, cid) ==
  {r \in SubmissionsOf(table, uid, pid, cid) :
     \A q \in SubmissionsOf(table, uid, pid, cid) :
       \/ q.score < r.score
       \/ q.score = r.score /\ q.created <= r.created}

\* get_highest_submission: order by (score desc, created_time), first.
get_highest_submission(table, uid, pid, cid) ==
  {r \in SubmissionsOf(table, uid, pid, cid) :
     \A q \in SubmissionsOf(table, uid, pid, cid) :
       \/ q.score < r.score
       \/ q.score = r.score /\ r.created <= q.created}

\* The submission the scoring rule selects: the rows the query may return.
Selected(table, rule, uid, pid, cid) ==
  IF rule = "Latest" THEN get_latest_submission(table, uid, pid, cid)
  ELSE get_highest_submission(table, uid, pid, cid)

\* The ascending sequence of a set of numbers: the rows of a table in the
\* order of their ids.
RECURSIVE Ascending(_)
Ascending(set) ==
  IF set = {} THEN <<>>
  ELSE LET m == CHOOSE x \in set : \A y \in set : x <= y
       IN <<m>> \o Ascending(set \ {m})

\* get_users and get_some_users: the ids of the users loaded.
get_users == Ascending(Users)
get_some_users(ids) == Ascending({u \in Users : Contains(ids, u)})

\* The problems of the ranklist of a contest: the contest's problem_ids
\* that the config has, in the order of the list.
RECURSIVE FilterProblems(_)
FilterProblems(pids) ==
  IF pids = <<>> THEN <<>>
  ELSE (IF problem_exists(Head(pids)) THEN <<Head(pids)>> ELSE <<>>)
         \o FilterProblems(Tail(pids))

\* The problems of the global ranklist: config.problems in order.
AllProblems == [i \in DOMAIN Problems |-> i - 1]

\* ProblemResult: the result of a problem for a user.
ProblemResult(score, submission_time, submission_count) ==
  [score |-> score, submission_time |-> submission_time,
   submission_count |-> submission_count]

\* <f64 as Sum>::sum folds from a neutral element: 0.0 in the standard
\* libraries of older toolchains, -0.0 in the later ones.  The repository does
\* not fix the toolchain.
Neutrals == {"0.0", "-0.0"}

\* An f64 that is not negative: its value, and whether it is -0.0.
F64(num, negzero) == [num |-> num, negzero |-> negzero]

\* f64::total_cmp on such numbers: -0.0 is less than 0.0.
total_cmp(a, b) ==
  IF a.num < b.num THEN "Less"
  ELSE IF a.num > b.num THEN "Greater"
  ELSE IF a.negzero = b.negzero THEN "Equal"
  ELSE IF a.negzero THEN "Less"
  ELSE "Greater"

\* DateTime::<Utc>::MAX_UTC
MAX_UTC == MaxTime + 1

\* The sum of the values of a map of numbers.
RECURSIVE SumOver(_, _)
SumOver(f, keys) ==
  IF keys = {} THEN 0
  ELSE LET k == CHOOSE x \in keys : TRUE
       IN f[k] + SumOver(f, keys \ {k})

\* The total score of a user: the neutral element when the map is empty;
\* the scores of the jobs are not negative and not -0.0.
total_score(map) ==
  F64(SumOver([k \in DOMAIN map |-> map[k].score], DOMAIN map),
      DOMAIN map = {} /\ neutral = "-0.0")

\* The mutant of max_submission_time: every user as one who never submitted.
no_submission_time(map) == MAX_UTC

\* The latest submission time of a user; MAX_UTC for a user who never
\* submitted.
max_submission_time(map) ==
  IF DOMAIN map = {} THEN MAX_UTC
  ELSE CHOOSE t \in {map[k].submission_time : k \in DOMAIN map} :
         \A k \in DOMAIN map : map[k].submission_time <= t

total_submission_count(map) ==
  SumOver([k \in DOMAIN map |-> map[k].submission_count], DOMAIN map)

\* Ord::cmp
cmp(a, b) == IF a < b THEN "Less" ELSE IF a > b THEN "Greater" ELSE "Equal"

\* Ordering::reverse
reverse(ord) ==
  IF ord = "Less" THEN "Greater" ELSE IF ord = "Greater" THEN "Less" ELSE "Equal"

\* TieBreaker::compare on two entries (id, map) of rank_list.
compare(tie_breaker, a, b) ==
  IF reverse(total_cmp(total_score(a.map), total_score(b.map))) # "Equal"
    THEN reverse(total_cmp(total_score(a.map), total_score(b.map)))
  ELSE IF tie_breaker = "Default" THEN "Equal"
  ELSE IF tie_breaker = "SubmissionTime"
    THEN cmp(max_submission_time(a.map), max_submission_time(b.map))
  ELSE IF tie_breaker = "SubmissionCount"
    THEN cmp(total_submission_count(a.map), total_submission_count(b.map))
  ELSE cmp(a.id, b.id)

\* The comparator of rank_list.sort_by: compare, then the user id.
sort_compare(tie_breaker, a, b) ==
  IF compare(tie_breaker, a, b) = "Equal" THEN cmp(a.id, b.id)
  ELSE compare(tie_breaker, a, b)

\* sort_by, a stable sort: each entry is put after the entries of the
\* sorted prefix that are not greater than it.
InsertSorted(tie_breaker, sorted, x) ==
  LET before == {i \in 0..Len(sorted) :
                   \A k \in 1..i : sort_compare(tie_breaker, sorted[k], x) # "Greater"}
      at == CHOOSE i \in before : \A k \in before : k <= i
  IN SubSeq(sorted, 1, at) \o <<x>> \o SubSeq(sorted, at + 1, Len(sorted))

RECURSIVE sort_by(_, _)
sort_by(tie_breaker, list) ==
  IF list = <<>> THEN <<>>
  ELSE InsertSorted(tie_breaker, sort_by(tie_breaker, SubSeq(list, 1, Len(list) - 1)),
                    list[Len(list)])

\* The mutant of NextRank: every row has its own rank.
NextRankOwn(last_rank, index, equal) == index + 1

\* The rank of the row at index (from 0) after a row of rank last_rank:
\* the same rank when the tie breaker declares the two equal, else index + 1.
NextRank(last_rank, index, equal) == IF equal THEN last_rank ELSE index + 1

\* The ranks of the first n rows of the sorted rank_list.
RECURSIVE Ranks(_, _, _)
Ranks(tie_breaker, rank_list, n) ==
  IF n = 0 THEN <<>>
  ELSE IF n = 1 THEN <<1>>
  ELSE LET prev == Ranks(tie_breaker, rank_list, n - 1)
       IN Append(prev,
                 NextRank(prev[n - 1], n - 1,
                          compare(tie_breaker, rank_list[n], rank_list[n - 1]) = "Equal"))

\* The problems of a ranklist: those of the configuration, or those of the
\* contest that the configuration has.
RankProblems(cid) ==
  IF cid = 0 THEN AllProblems
  ELSE FilterProblems(ContestFromRow(get_contest(cid)).contest.problem_ids)

\* get_user: the user of the id, if there is one.
get_user(uid) == IF uid \in Users THEN <<uid>> ELSE <<>>

\* A row of the response: the user, the rank and the scores.
RankingItem(user, rank, scores) == [user |-> user, rank |-> rank, scores |-> scores]

\* The end of the response loop: every row has its rank and its scores.
RankListResponse(call) ==
  LET rank_list == call.rank_list
      ranks == Ranks(call.args.tb, rank_list, Len(rank_list))
  IN [call EXCEPT
        !.pc = "done", !.ret = "Ok", !.loop = NoLoop,
        !.resp = [i \in 1..Len(rank_list) |->
                    RankingItem(rank_list[i].id, ranks[i], call.loop.scores[i])]]

\* The response loop at row i: get_user is its first statement; after the
\* last row the response is complete.
RankListRow(call, i) ==
  IF i > Len(call.rank_list) THEN RankListResponse(call)
  ELSE [call EXCEPT !.pc = "user", !.loop.i = i, !.loop.k = 1]

\* The end of the loading loop: rank_list has an entry for every user and
\* is sorted; the response loop starts.
RankListSort(call) ==
  LET lp == call.loop
  IN RankListRow([call EXCEPT
                    !.rank_list =
                      sort_by(call.args.tb,
                              [i \in 1..Len(lp.users) |->
                                 [id |-> lp.users[i], map |-> lp.maps[i]]])],
                 1)

\* The loading loop with the users and the problems loaded: its first
\* statement is the query for the first user and problem; without users or
\* without problems it makes no query.
RankListBegin(call, users, problems) ==
  LET loaded == [call EXCEPT
                   !.loop = [users |-> users, problems |-> problems,
                             i |-> 1, k |-> 1,
                             maps |-> [i \in 1..Len(users) |-> <<>>],
                             scores |-> [i \in 1..Len(users) |-> <<>>]]]
  IN IF Len(users) * Len(problems) = 0 THEN RankListSort(loaded)
     ELSE [loaded EXCEPT !.pc = "load"]

\* After the query of a loop for user (or row) i and problem k: the next
\* problem, the next user (or row), or the end of the loop.
RankListAdvance(call) ==
  LET lp == call.loop
  IN IF lp.k < Len(lp.problems) THEN [call EXCEPT !.loop.k = @ + 1]
     ELSE IF call.pc = "respond" THEN RankListRow(call, lp.i + 1)
     ELSE IF lp.i < Len(lp.users) THEN [call EXCEPT !.loop.i = @ + 1, !.loop.k = 1]
     ELSE RankListSort(call)

\* One statement of the loops of get_rank_list on the table: the calls it
\* may leave.  In the loading loop (pc "load") the selected submission of a
\* user on a problem is read; when there is one, the next statement (pc
\* "count") counts the submissions and puts the ProblemResult in the map of
\* the user.  In the response loop get_user reads the user of a row (pc
\* "user"), then the selected submission of the row on every problem is
\* read again for its score (pc "respond").
RankListStatement(call, table) ==
  LET lp == call.loop
      cid == call.args.cid
      i == lp.i
      pid == lp.problems[lp.k]
  IN IF call.pc = "load"
       THEN LET found == Selected(table, call.args.rule, lp.users[i], pid, cid)
            IN IF found = {} THEN {RankListAdvance(call)}
               ELSE {[call EXCEPT !.pc = "count", !.row = r] : r \in found}
     ELSE IF call.pc = "count"
       THEN LET result == ProblemResult(call.row.score, call.row.created,
                            get_submission_count(table, lp.users[i], pid, cid))
                map == [p \in DOMAIN lp.maps[i] \cup {pid} |->
                          IF p = pid THEN result ELSE lp.maps[i][p]]
            IN {RankListAdvance([call EXCEPT !.pc = "load", !.row = NoRow,
                                             !.loop.maps[i] = map])}
     ELSE IF call.pc = "user"
       THEN IF get_user(call.rank_list[i].id) = <<>>
              THEN {[call EXCEPT !.pc = "done", !.ret = "NotFound", !.loop = NoLoop]}
            ELSE IF lp.problems = <<>> THEN {RankListRow(call, i + 1)}
            ELSE {[call EXCEPT !.pc = "respond"]}
     ELSE LET found == Selected(table, call.args.rule, call.rank_list[i].id, pid, cid)
          IN {RankListAdvance([call EXCEPT !.loop.scores[i] = Append(@, score)]) :
                score \in IF found = {} THEN {0} ELSE {r.score : r \in found}}

\* get_rank_list, the first statement.  For a contest id other than 0 it
\* is does_contest_exist; for the id 0 it is get_users, and the problems
\* are those of the configuration.
RankListStart(cid, rule, tb, max) ==
  /\ Len(calls) < max
  /\ LET call(pc, ret) ==
           [Call("get_rank_list", pc, "None", NoRow, ret) EXCEPT
              !.args = [cid |-> cid, rule |-> rule, tb |-> tb]]
     IN IF cid = 0
          THEN calls' = Append(calls, RankListBegin(call("load", "None"),
                                                    get_users, AllProblems))
        ELSE IF ~ does_contest_exist(cid)
          THEN calls' = Append(calls,   \* returns before the rule is read
                 [Call("get_rank_list", "done", "None", NoRow, "NotFound") EXCEPT
                    !.args.cid = cid])
        ELSE calls' = Append(calls, call("contest", "None"))
  /\ UNCHANGED <<jobs, queue, wk, crashes, now, neutral, contests>>

\* get_rank_list: get_contest and the conversion of the row, which panics
\* when a list of ids is empty.
RankListContest(c) ==
  /\ calls[c].op = "get_rank_list" /\ calls[c].pc = "contest"
  /\ LET cid == calls[c].args.cid
     IN IF ~ does_contest_exist(cid)
          THEN calls' = [calls EXCEPT ![c].pc = "done", ![c].ret = "NotFound"]
        ELSE IF ~ ContestFromRow(get_contest(cid)).ok
          THEN calls' = [calls EXCEPT ![c].pc = "done", ![c].ret = "panic"]
        ELSE calls' = [calls EXCEPT ![c].pc = "users",
                                    ![c].contest = ContestFromRow(get_contest(cid)).contest]
  /\ UNCHANGED <<jobs, queue, wk, crashes, now, neutral, contests>>

\* get_rank_list: get_some_users of the contest, and its problems that the
\* configuration has.
RankListUsers(c) ==
  /\ calls[c].op = "get_rank_list" /\ calls[c].pc = "users"
  /\ calls' = [calls EXCEPT
       ![c] = RankListBegin(calls[c], get_some_users(calls[c].contest.user_ids),
                            FilterProblems(calls[c].contest.problem_ids))]
  /\ UNCHANGED <<jobs, queue, wk, crashes, now, neutral, contests>>

\* get_rank_list: the next statement of the loading loop or of the response
\* loop, a query of the store.
RankListStep(c) ==
  /\ calls[c].op = "get_rank_list"
  /\ calls[c].pc \in {"load", "count", "user", "respond"}
  /\ \E call \in RankListStatement(calls[c], jobs) :
       calls' = [calls EXCEPT ![c] = call]
  /\ UNCHANGED <<jobs, queue, wk, crashes, now, neutral, contests>>

(***************************************************************************)
(* The judge function (judge.rs).  What the environment does to the run   *)
(* of one test case is an input: the step that fails, if any, whether the  *)
(* program that exited successfully took longer than the time limit, and   *)
(* whether the (normalized) output equals the answer.                      *)
(***************************************************************************)
Fails ==
  {"none",
   "input_open",      \* File::open(case.input_file) is Err
   "output_create",   \* File::create(output) is Err
   "spawn",           \* Command::spawn is Err
   "exit_status",     \* wait_timeout is Ok(Some(status)), !status.success()
   "timeout",         \* wait_timeout is Ok(None), child.kill() is Ok
   "timeout_kill",    \* wait_timeout is Ok(None), child.kill() is Err
   "wait",            \* wait_timeout is Err
   "output_open",     \* File::open(output) is Err
   "answer_open",     \* File::open(case.answer_file) is Err
   "output_read",     \* trim(output) / read(output) is Err
   "answer_read"}     \* trim(answer) / read(answer) is Err

Env(fail, late, eq) == [fail |-> fail, late |-> late, eq |-> eq]

\* The steps before the elapsed time is read, and the steps after it.
EarlyFails == {"input_open", "output_create", "spawn", "exit_status",
               "timeout", "timeout_kill", "wait"}
LateFails == Fails \ (EarlyFails \cup {"none"})

\* Every environment of a test case: a step before the time is read fails;
\* or the program exits successfully, in time or late, and a later step
\* fails; or nothing fails and the output equals the answer or differs.
Envs ==
  {Env(f, FALSE, FALSE) : f \in EarlyFails}
    \cup {Env(f, late, FALSE) : f \in LateFails, late \in BOOLEAN}
    \cup {Env("none", late, eq) : late \in BOOLEAN, eq \in BOOLEAN}

\* wait_timeout(Duration::MAX) does not time out: a case without a time
\* limit is waited for until it exits.
EnvPossible(case, e) ==
  e.fail \in {"timeout", "timeout_kill"} => case.time_limit # 0

\* The outcomes of compiling: Command::status is Err, the compiler exits
\* unsuccessfully, or it succeeds.
CompileOutcomes == {"spawn_err", "exit_fail", "success"}

\* What the loop body does with the case: system_error(&mut results),
\* update_result(result, time) after adding `add` to the score, or a panic.
Verdict(kind, result, add) == [kind |-> kind, result |-> result, add |-> add]

\* The comparison of output and answer of a Standard or Strict problem:
\* both arms read the output, then the answer, and test output.is_err()
\* both times, so an answer that cannot be read reaches answer.unwrap().
CompareOutput(case, e) ==
  IF e.fail = "output_read" THEN Verdict("system_error", "SystemError", 0)
  ELSE IF e.fail = "answer_read" THEN Verdict("panic", "unwrap", 0)
  ELSE IF e.eq THEN Verdict("update_result", "Accepted", case.score)
  ELSE Verdict("update_result", "WrongAnswer", 0)

\* The body of `for case in problem.cases.iter()`, in the order of the code.
JudgeCase(typ, case, e) ==
  IF e.fail \in {"input_open", "output_create", "spawn"}
    THEN Verdict("system_error", "SystemError", 0)
  ELSE IF e.fail = "exit_status"
    THEN Verdict("update_result", "RuntimeError", 0)
  ELSE IF e.fail = "timeout"
    THEN Verdict("update_result", "TimeLimitExceeded", 0)
  ELSE IF e.fail \in {"timeout_kill", "wait"}
    THEN Verdict("system_error", "SystemError", 0)
  ELSE IF case.time_limit # 0 /\ e.late
    THEN Verdict("update_result", "TimeLimitExceeded", 0)
  ELSE IF e.fail \in {"output_open", "answer_open"}
    THEN Verdict("system_error", "SystemError", 0)
  ELSE IF typ \in {"Standard", "Strict"}
    THEN CompareOutput(case, e)
  ELSE Verdict("panic", "unimplemented", 0)

\* The locals of judge: results, score and result_type.
Locals(results, score, result_type) ==
  [results |-> results, score |-> score, result_type |-> result_type]

NoLocals == Locals(<<>>, 0, "Waiting")

\* The mutant of CompileError: the cases after the compilation are skipped.
CompileErrorSkipped(n) ==
  Locals([i \in 1..(n + 1) |->
            CaseResult(i - 1, IF i = 1 THEN "CompilationError" ELSE "Skipped")],
         0, "CompilationError")

\* Compilation error: CompilationError for case 0, Waiting for the cases
\* 1..=problem.cases.len(), result CompilationError, score 0.
CompileError(n) ==
  Locals([i \in 1..(n + 1) |->
            CaseResult(i - 1, IF i = 1 THEN "CompilationError" ELSE "Waiting")],
         0, "CompilationError")

\* Compilation success: the locals before the loop.
CompileSuccess == Locals(<<CaseResult(0, "CompilationSuccess")>>, 0, "Accepted")

\* system_error: pushes SystemError with id results.len(); result_type is
\* not touched.
system_error(l) ==
  [l EXCEPT !.results = Append(@, CaseResult(Len(@), "SystemError"))]

\* update_result: records the first non-accepted result and pushes the
\* result with the id taken at the top of the loop body.
update_result(l, id, result) ==
  [l EXCEPT !.result_type = IF result # "Accepted" /\ @ = "Accepted" THEN result ELSE @,
            !.results = Append(@, CaseResult(id, result))]

\* The mutant of ApplyVerdict: the score is added for every compared output.
ApplyVerdictAddsAlways(l, case, v) ==
  IF v.kind = "system_error" THEN system_error(l)
  ELSE update_result([l EXCEPT !.score = @ + (IF v.result \in {"Accepted", "WrongAnswer"}
                                               THEN case.score ELSE 0)],
                     Len(l.results), v.result)

\* One pass of the loop body that does not panic: the locals after it.
ApplyVerdict(l, case, v) ==
  IF v.kind = "system_error" THEN system_error(l)
  ELSE update_result([l EXCEPT !.score = @ + v.add], Len(l.results), v.result)

\* The mutant of LoopDone: the loop ends at the first verdict that is not
\* Accepted.
LoopDoneAtFirstFailure(l, n) ==
  \/ Len(l.results) = n + 1
  \/ \E i \in 2..Len(l.results) : l.results[i].result # "Accepted"

\* The loop has run over every case of the problem.
LoopDone(l, n) == Len(l.results) = n + 1

(***************************************************************************)
(* Judger worker.  A worker is: the place it has reached, the job id of    *)
(* its unacked delivery, its in-memory copy of the job and the locals of   *)
(* judge.  It writes the job back (update_job, the full row) on every      *)
(* change.                                                                 *)
(***************************************************************************)
Worker(pc, deliv, job, l) == [pc |-> pc, deliv |-> deliv, job |-> job, l |-> l]

IdleWorker == Worker("idle", NoJob, NoRow, NoLocals)

\* A worker process that is gone: killed from outside, or panicked.
Panicked == {"panic_unwrap", "panic_unimplemented"}
Gone == {"crashed"} \cup Panicked

\* The cases of the job while judge is running: the results so far, and
\* Waiting for the cases not yet judged.
Pad(results, n) ==
  [i \in 1..(n + 1) |-> IF i <= Len(results) THEN results[i]
                        ELSE CaseResult(i - 1, "Waiting")]

NumCases(job) == Len(get_problem(job.pid).cases)

\* The queue delivers a ready message to a worker with no unacked delivery.
Receive(w, jid) ==
  /\ wk[w].pc = "idle"
  /\ queue[jid] > 0
  /\ queue' = [queue EXCEPT ![jid] = @ - 1]
  /\ wk' = [wk EXCEPT ![w] = Worker("recv", jid, NoRow, NoLocals)]
  /\ UNCHANGED <<jobs, calls, crashes, now, neutral, contests>>

\* The worker loads the job; a Canceled job is acked without judging.
Load(w) ==
  /\ wk[w].pc = "recv"
  /\ \E job \in get_job(wk[w].deliv) :
       wk' = [wk EXCEPT ![w] = IF job.state = "Canceled"
                                 THEN Worker("ack", wk[w].deliv, NoRow, NoLocals)
                                 ELSE Worker("start", wk[w].deliv, job, NoLocals)]
  /\ UNCHANGED <<jobs, queue, calls, crashes, now, neutral, contests>>

\* state = Running, flush.
SetRunning(w) ==
  /\ wk[w].pc = "start"
  /\ LET job == [wk[w].job EXCEPT !.state = "Running"]
     IN /\ jobs' = update_job(jobs, job)
        /\ wk' = [wk EXCEPT ![w].pc = "compile", ![w].job = job]
  /\ UNCHANGED <<queue, calls, crashes, now, neutral, contests>>

\* The compile step of judge.  On a compilation error the job is Finished
\* with the result of judge; else case 0 is CompilationSuccess.  Flush.
Compile(w, outcome) ==
  /\ wk[w].pc = "compile"
  /\ LET n == NumCases(wk[w].job)
         l == IF outcome = "success" THEN CompileSuccess ELSE CompileError(n)
         job == IF outcome = "success"
                  THEN [wk[w].job EXCEPT !.score = l.score, !.cases = Pad(l.results, n)]
                  ELSE [wk[w].job EXCEPT !.state = "Finished", !.result = l.result_type,
                                         !.score = l.score, !.cases = l.results]
     IN /\ jobs' = update_job(jobs, job)
        /\ wk' = [wk EXCEPT ![w] = Worker(IF outcome = "success" THEN "case" ELSE "ack",
                                          wk[w].deliv, job, l)]
  /\ UNCHANGED <<queue, calls, crashes, now, neutral, contests>>

\* One test case of judge that ends with a verdict.  Flush.
RunCase(w, e) ==
  /\ wk[w].pc = "case"
  /\ LET n == NumCases(wk[w].job)
         problem == get_problem(wk[w].job.pid)
     IN /\ ~ LoopDone(wk[w].l, n)
        /\ LET case == problem.cases[Len(wk[w].l.results)]
               v == JudgeCase(problem.typ, case, e)
               l == ApplyVerdict(wk[w].l, case, v)
               job == [wk[w].job EXCEPT !.score = l.score, !.cases = Pad(l.results, n)]
           IN /\ EnvPossible(case, e)
              /\ v.kind # "panic"
              /\ jobs' = update_job(jobs, job)
              /\ wk' = [wk EXCEPT ![w].job = job, ![w].l = l]
  /\ UNCHANGED <<queue, calls, crashes, now, neutral, contests>>

\* One test case of judge that panics: the worker process exits and the
\* queue takes its unacked delivery back.
RunCasePanics(w, e) ==
  /\ wk[w].pc = "case"
  /\ LET n == NumCases(wk[w].job)
         problem == get_problem(wk[w].job.pid)
     IN /\ ~ LoopDone(wk[w].l, n)
        /\ LET case == problem.cases[Len(wk[w].l.results)]
               v == JudgeCase(problem.typ, case, e)
           IN /\ EnvPossible(case, e)
              /\ v.kind = "panic"
              /\ wk' = [wk EXCEPT ![w] = Worker("panic_" \o v.result, NoJob, NoRow, NoLocals)]
  /\ queue' = [queue EXCEPT ![wk[w].deliv] = @ + 1]
  /\ UNCHANGED <<jobs, calls, crashes, now, neutral, contests>>

\* judge returns: state = Finished, result, score and cases of the
\* JudgeResult.  Flush.
Finalize(w) ==
  /\ wk[w].pc = "case"
  /\ LoopDone(wk[w].l, NumCases(wk[w].job))
  /\ LET l == wk[w].l
         job == [wk[w].job EXCEPT !.state = "Finished", !.result = l.result_type,
                                  !.score = l.score,
                                  !.cases = Pad(l.results, NumCases(wk[w].job))]
     IN /\ jobs' = update_job(jobs, job)
        /\ wk' = [wk EXCEPT ![w].pc = "ack", ![w].job = job]
  /\ UNCHANGED <<queue, calls, crashes, now, neutral, contests>>

\* The worker acks its delivery and waits for the next one.
Ack(w) ==
  /\ wk[w].pc = "ack"
  /\ wk' = [wk EXCEPT ![w] = IdleWorker]
  /\ UNCHANGED <<jobs, queue, calls, crashes, now, neutral, contests>>

\* A worker process is killed (or loses its connection, or exits on a store
\* failure): the queue takes its unacked delivery back.  Workers are not
\* started again.
Crash(w) ==
  /\ wk[w].pc \notin Gone
  /\ crashes < MaxCrashes
  /\ crashes' = crashes + 1
  /\ queue' = IF wk[w].deliv = NoJob THEN queue
              ELSE [queue EXCEPT ![wk[w].deliv] = @ + 1]
  /\ wk' = [wk EXCEPT ![w] = Worker("crashed", NoJob, NoRow, NoLocals)]
  /\ UNCHANGED <<jobs, calls, now, neutral, contests>>

(***************************************************************************)
(* The specifications.                                                     *)
(***************************************************************************)
Init ==
  /\ jobs = {}
  /\ queue = [j \in QueueIds |-> 0]
  /\ calls = <<>>
  /\ wk = [w \in Workers |-> IdleWorker]
  /\ crashes = 0
  /\ now = 0
  /\ neutral = "0.0"
  /\ contests = Contests

\* The submissions of the scheduler specification: valid, outside any
\* contest.
SchedSubs == {Submission("Rust", pid, 0, 0) : pid \in SubmitPids}

DispatcherStep ==
  \/ \E sub \in SchedSubs : NewJobCheck(sub, MaxCalls)
  \/ \E c \in DOMAIN calls : NewJobCreated(c)
  \/ \E c \in DOMAIN calls : NewJobCount(c)
  \/ \E c \in DOMAIN calls : NewJobInsert(c)
  \/ \E c \in DOMAIN calls : QueueJob(c)
  \/ \E c \in DOMAIN calls : QueueJobFails(c)
  \/ \E jid \in JobIds : RejudgeLoad(jid, MaxCalls)
  \/ \E c \in DOMAIN calls : RejudgeGet(c)
  \/ \E c \in DOMAIN calls : RejudgeNow(c)
  \/ \E c \in DOMAIN calls : RejudgeUpdate(c)
  \/ \E c \in DOMAIN calls : RejudgeSelect(c)
  \/ \E jid \in JobIds : CancelLoad(jid, MaxCalls)
  \/ \E c \in DOMAIN calls : CancelUpdate(c)
  \/ \E c \in DOMAIN calls : CancelSelect(c)

WorkerStep(w, envs) ==
  \/ \E jid \in QueueIds : Receive(w, jid)
  \/ Load(w)
  \/ SetRunning(w)
  \/ \E outcome \in CompileOutcomes : Compile(w, outcome)
  \/ \E e \in envs : RunCase(w, e)
  \/ \E e \in envs : RunCasePanics(w, e)
  \/ Finalize(w)
  \/ Ack(w)

Next ==
  \/ DispatcherStep
  \/ \E w \in Workers : WorkerStep(w, Envs)
  \/ \E w \in Workers : Crash(w)

Spec == Init /\ [][Next]_vars

\* The judge specification: one submission to any problem has been stored
\* and published; the workers judge it in every environment.
JudgeInit ==
  \E pid \in ProblemIds :
    /\ jobs = {NewJobRow(0, Submission("Rust", pid, 0, 0), 0)}
    /\ queue = [j \in QueueIds |-> IF j = 0 THEN 1 ELSE 0]
    /\ calls = <<[Call("new_job", "done", "None",
                       NewJobRow(0, Submission("Rust", pid, 0, 0), 0), "Ok")
                    EXCEPT !.sub = Submission("Rust", pid, 0, 0)]>>
    /\ wk = [w \in Workers |-> IdleWorker]
    /\ crashes = 0
    /\ now = 0
    /\ neutral = "0.0"
    /\ contests = Contests

JudgeNext == \E w \in Workers : WorkerStep(w, Envs)

JudgeSpec == JudgeInit /\ [][JudgeNext]_vars

\* The liveness specification: the judge specification with workers that
\* may be killed, every worker process that is alive taking its steps.
FairNext ==
  \/ \E w \in Workers : WorkerStep(w, Envs)
  \/ \E w \in Workers : Crash(w)

FairSpec ==
  JudgeInit /\ [][FairNext]_vars /\ \A w \in Workers : WF_vars(WorkerStep(w, Envs))

\* The submission specification: submissions of every kind arrive while
\* the clock advances; one worker judges the accepted ones.
CheckSubs ==
  {Submission(lang, pid, uid, cid) :
     lang \in {"Rust", "Cobol"}, pid \in {0, 1, 7}, uid \in {0, 1, 5},
     cid \in {0, 1, 3, 4}}

CheckEnvs == {Env("none", FALSE, TRUE)}

\* The contests of the update_contest requests: contest 1 with the limit
\* raised to 2, contest 1 without users, a contest with an id that is not
\* stored, a new contest like contest 1 that is open at all times, and a
\* contest with a user that does not exist.
CheckContests ==
  {Contest(<<1>>, 1, 2, <<0>>, <<0>>, 2),
   Contest(<<1>>, 1, 2, <<0>>, <<>>, 1),
   Contest(<<4>>, 0, MaxTime, <<0>>, <<0>>, 3),
   Contest(<<>>, 0, MaxTime, <<0>>, <<0>>, 1),
   Contest(<<>>, 0, MaxTime, <<0>>, <<5>>, 1)}

CheckNext ==
  \/ Tick
  \/ \E contest \in CheckContests : UpdateContest(contest, MaxCalls)
  \/ \E c \in DOMAIN calls : UpdateContestUpdate(c)
  \/ \E c \in DOMAIN calls : UpdateContestSelect(c)
  \/ \E c \in DOMAIN calls : UpdateContestCount(c)
  \/ \E c \in DOMAIN calls : UpdateContestInsert(c)
  \/ \E sub \in CheckSubs : NewJobCheck(sub, MaxCalls)
  \/ \E c \in DOMAIN calls : NewJobContest(c)
  \/ \E c \in DOMAIN calls : NewJobWindow(c)
  \/ \E c \in DOMAIN calls : NewJobLimit(c)
  \/ \E c \in DOMAIN calls : NewJobCreated(c)
  \/ \E c \in DOMAIN calls : NewJobCount(c)
  \/ \E c \in DOMAIN calls : NewJobInsert(c)
  \/ \E c \in DOMAIN calls : QueueJob(c)
  \/ \E c \in DOMAIN calls : QueueJobFails(c)
  \/ \E jid \in QueueIds : Receive(1, jid)
  \/ Load(1)
  \/ SetRunning(1)
  \/ Compile(1, "success")
  \/ \E e \in CheckEnvs : RunCase(1, e)
  \/ Finalize(1)
  \/ Ack(1)

CheckSpec == Init /\ [][CheckNext]_vars

\* The submission limit specification: user 0 submits to problem 0 in
\* contest 1 (one submission each, open from 1 to 2) while the clock
\* advances, cancel requests for the jobs arrive and one worker judges the
\* deliveries.
LimitSubs == {Submission("Rust", 0, 0, 1)}

LimitNext ==
  \/ Tick
  \/ \E sub \in LimitSubs : NewJobCheck(sub, MaxLimitCalls)
  \/ \E c \in DOMAIN calls : NewJobContest(c)
  \/ \E c \in DOMAIN calls : NewJobWindow(c)
  \/ \E c \in DOMAIN calls : NewJobLimit(c)
  \/ \E c \in DOMAIN calls : NewJobCreated(c)
  \/ \E c \in DOMAIN calls : NewJobCount(c)
  \/ \E c \in DOMAIN calls : NewJobInsert(c)
  \/ \E c \in DOMAIN calls : QueueJob(c)
  \/ \E c \in DOMAIN calls : QueueJobFails(c)
  \/ \E jid \in JobIds : CancelLoad(jid, MaxLimitCalls)
  \/ \E c \in DOMAIN calls : CancelUpdate(c)
  \/ \E c \in DOMAIN calls : CancelSelect(c)
  \/ \E jid \in QueueIds : Receive(1, jid)
  \/ Load(1)
  \/ SetRunning(1)
  \/ Compile(1, "success")
  \/ \E e \in CheckEnvs : RunCase(1, e)
  \/ Finalize(1)
  \/ Ack(1)

LimitSpec == Init /\ [][LimitNext]_vars

\* The rejudge and cancel specification: a job of the two-case problem has
\* been submitted and judged (its compilation failed) and the delivery is
\* acked; rejudge and cancel requests for it arrive while one worker takes
\* the deliveries.
RaceSub == Submission("Rust", 0, 0, 0)

RaceInit ==
  /\ jobs = {[NewJobRow(0, RaceSub, 0) EXCEPT
                 !.state = "Finished", !.result = "CompilationError",
                 !.cases = CompileError(Len(get_problem(RaceSub.pid).cases)).results]}
  /\ queue = [j \in QueueIds |-> 0]
  /\ calls = <<[Call("new_job", "done", "None", NewJobRow(0, RaceSub, 0), "Ok")
                  EXCEPT !.sub = RaceSub]>>
  /\ wk = [w \in Workers |-> IdleWorker]
  /\ crashes = 0
  /\ now = 0
  /\ neutral = "0.0"
  /\ contests = Contests

RaceNext ==
  \/ Tick
  \/ RejudgeLoad(0, MaxRaceCalls)
  \/ \E c \in DOMAIN calls : RejudgeGet(c)
  \/ \E c \in DOMAIN calls : RejudgeNow(c)
  \/ \E c \in DOMAIN calls : RejudgeUpdate(c)
  \/ \E c \in DOMAIN calls : RejudgeSelect(c)
  \/ \E c \in DOMAIN calls : QueueJob(c)
  \/ CancelLoad(0, MaxRaceCalls)
  \/ \E c \in DOMAIN calls : CancelUpdate(c)
  \/ \E c \in DOMAIN calls : CancelSelect(c)
  \/ \E jid \in QueueIds : Receive(1, jid)
  \/ Load(1)
  \/ SetRunning(1)
  \/ Compile(1, "exit_fail")
  \/ Ack(1)

RaceSpec == RaceInit /\ [][RaceNext]_vars

\* The ranklist specification: some jobs have been submitted, one after
\* the other, and judged or not yet; ranklists are requested.
RankPids == {0, 1}

\* The environments of the n cases of a judged job: the first k outputs
\* equal the answer, the others differ.
RankEnvs(n, k) == [i \in 1..n |-> Env("none", FALSE, i <= k)]

\* The locals of judge after the loop over the cases.
RECURSIVE JudgeLoop(_, _, _)
JudgeLoop(problem, l, envs) ==
  IF envs = <<>> THEN l
  ELSE LET case == problem.cases[Len(l.results)]
       IN JudgeLoop(problem,
                    ApplyVerdict(l, case, JudgeCase(problem.typ, case, Head(envs))),
                    Tail(envs))

\* The row of a job that compiled and was judged in these environments.
JudgedRow(row, envs) ==
  LET l == JudgeLoop(get_problem(row.pid), CompileSuccess, envs)
  IN [row EXCEPT !.state = "Finished", !.result = l.result_type,
                 !.score = l.score, !.cases = l.results]

\* The jobs of the ranklist specification: the user, the problem, the
\* number of cases whose output equals the answer (none or all; -1: the
\* job is not judged yet), created_time and the contest, whose checks
\* new_job made.
RankJobCids == {0, 2}

RankChoices ==
  {ch \in Users \X RankPids \X (-1..Len(Problems[1].cases)) \X (0..MaxRankTime)
            \X RankJobCids :
     /\ ch[3] \in {-1, 0, Len(get_problem(ch[2]).cases)}
     /\ ch[5] # 0 => /\ Contains(ApiContests[ch[5]].user_ids, ch[1])
                     /\ Contains(ApiContests[ch[5]].problem_ids, ch[2])}

\* The jobs of the tables of fewer than MaxRankJobs jobs: those of a
\* contest are judged jobs on problem 0.
TableChoices == {ch \in RankChoices : ch[5] # 0 => (ch[2] = 0 /\ ch[3] # -1)}

\* The jobs of the tables in which every total ties: of the users 0 and 1,
\* judged outside any contest, no output equal to the answer.
TieChoices == {ch \in RankChoices : ch[1] \in {0, 1} /\ ch[3] = 0 /\ ch[5] = 0}

RankRow(id, ch) ==
  LET row == NewJobRow(id, Submission("Rust", ch[2], ch[1], ch[5]), ch[4])
  IN IF ch[3] = -1 THEN row
     ELSE JudgedRow(row, RankEnvs(Len(get_problem(ch[2]).cases), ch[3]))

\* Fewer than MaxRankJobs jobs of TableChoices, or MaxRankJobs jobs whose
\* totals all tie; ids from 0, and created in any order: a request reads the clock
\* before it reads jobs_count, so the ids do not follow the created times.
RankInit ==
  /\ \E n \in 0..MaxRankJobs :
     \E f \in [0..(n - 1) -> IF n < MaxRankJobs THEN TableChoices ELSE TieChoices] :
       /\ jobs = {RankRow(i, f[i]) : i \in 0..(n - 1)}
  /\ queue = [j \in QueueIds |-> 0]
  /\ calls = <<>>
  /\ wk = [w \in Workers |-> IdleWorker]
  /\ crashes = 0
  /\ now = MaxRankTime
  /\ neutral \in Neutrals
  /\ contests = Contests

RankCids == {0, 2, 3, 4}

RankNext ==
  \/ \E cid \in RankCids, rule \in ScoringRules, tb \in TieBreakers :
       RankListStart(cid, rule, tb, MaxRankCalls)
  \/ \E c \in DOMAIN calls : RankListContest(c)
  \/ \E c \in DOMAIN calls : RankListUsers(c)
  \/ \E c \in DOMAIN calls : RankListStep(c)

RankSpec == RankInit /\ [][RankNext]_vars

(***************************************************************************)
(* Definitions shared by the properties.                                   *)
(***************************************************************************)
\* The worker holds an unacked delivery whose job it has loaded.
Holding(w) == wk[w].pc \in {"start", "compile", "case", "ack"}

\* judge has returned its JudgeResult to worker w.
Returned(w) ==
  /\ wk[w].pc = "ack"
  /\ wk[w].l # NoLocals

ResultOf(cases, i) == cases[i + 1].result

\* The verdict of the first test case that is not Accepted, or Accepted.
FirstNonAccepted(cases) ==
  LET bad == {i \in 1..(Len(cases) - 1) : ResultOf(cases, i) # "Accepted"}
  IN IF bad = {} THEN "Accepted"
     ELSE ResultOf(cases, CHOOSE i \in bad : \A k \in bad : i <= k)

\* The sum of the configured scores of the test cases recorded as Accepted.
RECURSIVE AcceptedScore(_, _, _)
AcceptedScore(cases, pcases, k) ==
  IF k = 0 THEN 0
  ELSE AcceptedScore(cases, pcases, k - 1)
         + (IF ResultOf(cases, k) = "Accepted" THEN pcases[k].score ELSE 0)

(***************************************************************************)
(* C1.  As claimed: every change of a persisted job's state is one of the  *)
(* four edges Queueing->Running, Running->Finished, Queueing->Canceled,    *)
(* Finished->Queueing.                                                     *)
(***************************************************************************)
Edges == {<<"Queueing", "Running">>, <<"Running", "Finished">>,
          <<"Queueing", "Canceled">>, <<"Finished", "Queueing">>}

C1_OnlyFourEdges ==
  [][\A r \in jobs : \A r2 \in jobs' :
       (r.id = r2.id /\ r.state # r2.state) => <<r.state, r2.state>> \in Edges]_vars

\* C1, amended: every change of a persisted job's state is one of four
\* writes: Running by a flush of a worker that is judging the job, having
\* loaded it in a state other than Canceled; Finished by the flush with
\* which a worker completes its run of the job; Canceled by a cancel call
\* that read the job as Queueing; Queueing by a rejudge call that read the
\* job as Finished.  (The state overwritten is whatever the row holds at
\* the write.)
C1_FourWrites ==
  [][\A r \in jobs : \A r2 \in jobs' :
       (r.id = r2.id /\ r.state # r2.state) =>
         \/ /\ r2.state = "Running"
            /\ \E w \in Workers :
                 /\ wk[w].pc \in {"start", "compile", "case"}
                 /\ wk'[w].pc \in {"compile", "case"}
                 /\ wk[w].deliv = r.id
                 /\ wk[w].job.state # "Canceled"
                 /\ wk'[w].job = r2
         \/ /\ r2.state = "Finished"
            /\ \E w \in Workers :
                 /\ wk[w].pc \in {"compile", "case"} /\ wk'[w].pc = "ack"
                 /\ wk[w].deliv = r.id
                 /\ wk'[w].job = r2
         \/ /\ r2.state = "Canceled"
            /\ \E c \in DOMAIN calls :
                 /\ calls[c].op = "cancel_job"
                 /\ calls[c].pc = "update" /\ calls'[c].pc = "select"
                 /\ calls[c].row.id = r.id
                 /\ calls[c].seen = "Queueing"
         \/ /\ r2.state = "Queueing"
            /\ \E c \in DOMAIN calls :
                 /\ calls[c].op = "rejudge_job"
                 /\ calls[c].pc = "update" /\ calls'[c].pc = "select"
                 /\ calls[c].row.id = r.id
                 /\ calls[c].seen = "Finished"]_vars

\* C1, witness: a cancel call has succeeded and the job has since been run
\* to Finished by the worker that had loaded it before the cancel.
C1_CancelLost ==
  \E c \in DOMAIN calls :
    /\ calls[c].op = "cancel_job" /\ calls[c].ret = "Ok"
    /\ \E r \in jobs : r.id = calls[c].row.id /\ r.state = "Finished"

(***************************************************************************)
(* C2.  The ids of the stored jobs are pairwise distinct and are exactly   *)
(* 0..n-1 for n stored jobs, and no two successful new_job calls return    *)
(* the same id.                                                            *)
(***************************************************************************)
C2_DistinctDenseIds ==
  /\ \A r1 \in jobs : \A r2 \in jobs : r1.id = r2.id => r1 = r2
  /\ {r.id : r \in jobs} = 0..(Cardinality(jobs) - 1)
  /\ \A c1 \in DOMAIN calls : \A c2 \in DOMAIN calls :
       ( /\ c1 # c2
         /\ calls[c1].op = "new_job" /\ calls[c1].ret = "Ok"
         /\ calls[c2].op = "new_job" /\ calls[c2].ret = "Ok" )
       => calls[c1].row.id # calls[c2].row.id

\* C2, witness: two new_job calls have read the same jobs_count, and one of
\* them has inserted its job and returned.
C2_SameCountRead ==
  \E c1 \in DOMAIN calls : \E c2 \in DOMAIN calls :
    /\ c1 # c2
    /\ calls[c1].op = "new_job" /\ calls[c2].op = "new_job"
    /\ calls[c1].row.id = calls[c2].row.id
    /\ calls[c1].ret = "Ok"
    /\ calls[c2].pc = "insert"

(***************************************************************************)
(* C3.  As claimed: no two workers are at the same time between loading    *)
(* job J and acking the delivery for J.                                    *)
(***************************************************************************)
C3_OneWorkerPerJob ==
  \A w1 \in Workers : \A w2 \in Workers :
    (w1 # w2 /\ Holding(w1) /\ Holding(w2)) => wk[w1].deliv # wk[w2].deliv

(***************************************************************************)
(* C4.  As claimed: every job whose id is in the work queue eventually     *)
(* has persisted state Finished (the liveness specification has no         *)
(* cancel).                                                                *)
(***************************************************************************)
C4_PublishedEventuallyFinished ==
  \A jid \in QueueIds :
    (queue[jid] > 0) ~> (\E r \in jobs : r.id = jid /\ r.state = "Finished")

(***************************************************************************)
(* C5.  As claimed: when the compile step succeeds, the result judge       *)
(* returns is the verdict of the first test case that is not Accepted, and *)
(* Accepted if every test case is Accepted.                                *)
(***************************************************************************)
C5_ResultIsFirstNonAccepted ==
  \A w \in Workers :
    (Returned(w) /\ ResultOf(wk[w].l.results, 0) = "CompilationSuccess")
      => wk[w].l.result_type = FirstNonAccepted(wk[w].l.results)

(***************************************************************************)
(* C6.  Every persisted job has 1 + len(problem.cases) cases, and its      *)
(* score is the sum of the configured scores of the test cases whose       *)
(* recorded result is Accepted.                                            *)
(***************************************************************************)
C6_CasesAndScore ==
  \A r \in jobs :
    LET pcases == get_problem(r.pid).cases
    IN /\ Len(r.cases) = 1 + Len(pcases)
       /\ r.score = AcceptedScore(r.cases, pcases, Len(pcases))

\* C6, witness: a job of the two-case problem is Finished with the first
\* case Accepted and the second WrongAnswer, score 50.
C6_HalfAccepted ==
  \E r \in jobs :
    /\ r.state = "Finished" /\ r.pid = 0 /\ r.score = 50
    /\ ResultOf(r.cases, 1) = "Accepted"
    /\ ResultOf(r.cases, 2) = "WrongAnswer"

(***************************************************************************)
(* C7.  When the compilation fails, judge returns CompilationError for     *)
(* case 0, Waiting for every test case, result CompilationError and score  *)
(* 0, and so is the job persisted as Finished; no test case is run.        *)
(***************************************************************************)
CompilationErrorShape(cases, result, score, n) ==
  /\ Len(cases) = n + 1
  /\ \A i \in 1..n : ResultOf(cases, i) = "Waiting"
  /\ result = "CompilationError"
  /\ score = 0

C7_CompilationErrorShortCircuits ==
  /\ \A w \in Workers :
       (Holding(w) /\ wk[w].l # NoLocals
          /\ ResultOf(wk[w].l.results, 0) = "CompilationError")
       => /\ wk[w].pc = "ack"
          /\ CompilationErrorShape(wk[w].l.results, wk[w].l.result_type,
                                   wk[w].l.score, NumCases(wk[w].job))
  /\ \A r \in jobs :
       (r.state = "Finished" /\ ResultOf(r.cases, 0) = "CompilationError")
       => CompilationErrorShape(r.cases, r.result, r.score, NumCases(r))

\* C7, witness: a job of the two-case problem is Finished on a compilation
\* error.
C7_CompilationErrorFinished ==
  \E r \in jobs :
    /\ r.state = "Finished" /\ r.pid = 0
    /\ ResultOf(r.cases, 0) = "CompilationError"

(***************************************************************************)
(* C8.  Every Finished job that did not stop on a compilation error has    *)
(* CompilationSuccess for case 0 and a verdict other than Running or       *)
(* Waiting for every test case.                                            *)
(***************************************************************************)
EveryCaseJudged(cases, n) ==
  /\ ResultOf(cases, 0) = "CompilationSuccess"
  /\ Len(cases) = n + 1
  /\ \A i \in 1..n : ResultOf(cases, i) \notin {"Running", "Waiting"}

C8_EveryCaseJudged ==
  /\ \A w \in Workers :
       (Returned(w) /\ ResultOf(wk[w].l.results, 0) # "CompilationError")
       => EveryCaseJudged(wk[w].l.results, NumCases(wk[w].job))
  /\ \A r \in jobs :
       (r.state = "Finished" /\ ResultOf(r.cases, 0) # "CompilationError")
       => EveryCaseJudged(r.cases, NumCases(r))

\* C8, witness: a Finished job whose first test case is not Accepted and
\* whose second test case has its verdict.
C8_JudgedAfterFailure ==
  \E r \in jobs :
    /\ r.state = "Finished" /\ r.pid = 0
    /\ ResultOf(r.cases, 1) \in {"WrongAnswer", "RuntimeError", "TimeLimitExceeded",
                                 "SystemError"}
    /\ ResultOf(r.cases, 2) = "Accepted"

(***************************************************************************)
(* C9.  As claimed: no failure to open or read a file of a test case       *)
(* aborts the judge run.                                                   *)
(***************************************************************************)
C9_FileFailureNeverPanics ==
  \A w \in Workers : wk[w].pc # "panic_unwrap"

(***************************************************************************)
(* C10.  As claimed: the judge run of a problem of type Spj or             *)
(* DynamicRanking does not abort.                                          *)
(***************************************************************************)
C10_UnimplementedNeverPanics ==
  \A w \in Workers : wk[w].pc # "panic_unimplemented"

(***************************************************************************)
(* Definitions shared by the properties of new_job.                        *)
(***************************************************************************)
\* The step starts a new_job request: the request is the last of calls
\* afterwards.
NewJobChecked ==
  /\ Len(calls') = Len(calls) + 1
  /\ calls'[Len(calls')].op = "new_job"

\* Call c of new_job takes the step it has reached at pc.
Leaves(c, pc) ==
  /\ c \in DOMAIN calls /\ calls[c].op = "new_job"
  /\ calls[c].pc = pc /\ calls'[c].pc # pc

\* The submission names a language, a problem and a user that exist.
EntitiesExist(sub) ==
  sub.lang \in Languages /\ sub.pid \in ProblemIds /\ sub.uid \in Users

\* The contests that update_contest was given: those stored at the start
\* and those of the requests, with the id they are stored under.
GivenContests ==
  Elems(ApiContests)
    \cup {[k EXCEPT !.id = n] : k \in CheckContests, n \in 1..(Len(ApiContests) + MaxCalls)}

\* The contests that were given for the row stored with the id.
StoredAs(cid) == {k \in GivenContests : ContestToRow(k) = contests[cid]}

\* The number of stored jobs of the user on the problem in the contest,
\* whatever their state.
StoredSubmissions(sub) ==
  Cardinality({r \in jobs : r.uid = sub.uid /\ r.pid = sub.pid /\ r.cid = sub.cid})

\* The new_job request was not rejected by the checks.
Accepted(call) == call.ret \in {"", "Ok", "External"}

(***************************************************************************)
(* C11.  As claimed: new_job returns the error of the first check that     *)
(* fails, in the order language, problem, user (NotFound) and, for a       *)
(* contest_id other than 0, contest exists (NotFound), user in the contest *)
(* (InvalidArgument), problem in the contest (InvalidArgument), time       *)
(* window (InvalidArgument), submission limit (RateLimit); for contest_id  *)
(* 0 no contest check is applied.                                          *)
(***************************************************************************)
FirstFailingCheck(sub) ==
  IF sub.lang \notin Languages THEN "NotFound"
  ELSE IF sub.pid \notin ProblemIds THEN "NotFound"
  ELSE IF sub.uid \notin Users THEN "NotFound"
  ELSE ""

\* The first failing check of the membership in the contest as it was
\* given to update_contest.
FirstFailingMembership(sub, contest) ==
  IF sub.uid \notin Elems(contest.user_ids) THEN "InvalidArgument"
  ELSE IF sub.pid \notin Elems(contest.problem_ids) THEN "InvalidArgument"
  ELSE ""

C11_FirstFailingCheck ==
  [][/\ NewJobChecked =>
          LET call == calls'[Len(calls')]
          IN /\ call.ret = FirstFailingCheck(call.sub)
             /\ call.ret = "" =>
                  call.pc = IF call.sub.cid = 0 THEN "created" ELSE "contest"
     /\ \A c \in DOMAIN calls :
          /\ Leaves(c, "contest") =>
               LET sub == calls[c].sub
               IN IF sub.cid \notin DOMAIN contests
                    THEN calls'[c].ret = "NotFound"
                    ELSE \A k \in StoredAs(sub.cid) :
                           /\ calls'[c].ret = FirstFailingMembership(sub, k)
                           /\ calls'[c].ret = "" =>
                                calls'[c].pc = "window" /\ calls'[c].contest = k
          /\ Leaves(c, "window") =>
               LET contest == calls[c].contest
               IN IF now < contest.from \/ now > contest.to
                    THEN calls'[c].ret = "InvalidArgument"
                    ELSE calls'[c].ret = "" /\ calls'[c].pc = "limit"
          /\ Leaves(c, "limit") =>
               IF StoredSubmissions(calls[c].sub) >= calls[c].contest.submission_limit
                 THEN calls'[c].ret = "RateLimit"
                 ELSE calls'[c].ret = "" /\ calls'[c].pc = "created"]_vars

(***************************************************************************)
(* C12.  A submission to a contest that has the user and the problem is    *)
(* rejected with InvalidArgument iff now < contest.from (hasn't yet begun) *)
(* or now > contest.to (has already ended); at now = contest.from and at   *)
(* now = contest.to it is not.                                             *)
(***************************************************************************)
C12_WindowInclusive ==
  [][\A c \in DOMAIN calls :
       Leaves(c, "window") =>
         LET call == calls'[c]
             contest == calls[c].contest
         IN /\ call.ret = "InvalidArgument" <=> (now < contest.from \/ now > contest.to)
            /\ now < contest.from => call.msg = "hasn't yet begun"
            /\ now > contest.to => call.msg = "has already ended"
            /\ now \in {contest.from, contest.to} =>
                 call.ret = "" /\ call.pc = "limit"]_vars

\* C12, witness: a submission to contest 1 whose time was read at
\* contest.to was accepted and one whose time was read later was rejected
\* because the contest has ended.
C12_AcceptedAtEnd ==
  \E c1 \in DOMAIN calls : \E c2 \in DOMAIN calls :
    /\ calls[c1].op = "new_job" /\ calls[c1].sub.cid = 1
    /\ calls[c1].at = calls[c1].contest.to /\ calls[c1].ret = "Ok"
    /\ calls[c2].op = "new_job" /\ calls[c2].sub.cid = 1
    /\ calls[c2].at > calls[c2].contest.to
    /\ calls[c2].ret = "InvalidArgument" /\ calls[c2].msg = "has already ended"

(***************************************************************************)
(* C13.  A submission to a contest that passes the earlier checks is       *)
(* accepted iff the number of stored jobs of the user on the problem in    *)
(* the contest, in whatever state, is below contest.submission_limit, and  *)
(* is rejected with RateLimit otherwise.                                   *)
(***************************************************************************)
C13_LimitCountsEveryState ==
  [][\A c \in DOMAIN calls :
       Leaves(c, "limit") =>
         LET call == calls'[c]
             contest == calls[c].contest
         IN /\ (call.ret = "" /\ call.pc = "created")
                 <=> StoredSubmissions(call.sub) < contest.submission_limit
            /\ call.ret # "" => (call.ret = "RateLimit" /\ call.pc = "done")]_vars

\* C13, witness: a submission was rejected with RateLimit and the job that
\* was counted is stored as Finished.
C13_FinishedJobCounted ==
  \E c \in DOMAIN calls :
    /\ calls[c].op = "new_job" /\ calls[c].ret = "RateLimit"
    /\ \E r \in jobs :
         /\ r.uid = calls[c].sub.uid /\ r.pid = calls[c].sub.pid
         /\ r.cid = calls[c].sub.cid
         /\ r.state = "Finished"

\* C13, second witness: a cancel of a job has succeeded, a later submission
\* of the same user to the same problem in the same contest was rejected
\* with RateLimit, and the only job that can have been counted is the
\* canceled one, stored as Canceled.
C13_CanceledJobCounted ==
  \E c, d \in DOMAIN calls :
    /\ c < d
    /\ calls[c].op = "cancel_job" /\ calls[c].ret = "Ok"
    /\ calls[d].op = "new_job" /\ calls[d].ret = "RateLimit"
    /\ StoredSubmissions(calls[d].sub) = 1
    /\ \E r \in jobs :
         /\ r.id = calls[c].jid
         /\ r.uid = calls[d].sub.uid /\ r.pid = calls[d].sub.pid
         /\ r.cid = calls[d].sub.cid
         /\ r.state = "Canceled"

(***************************************************************************)
(* Definitions shared by the properties of the handlers.                   *)
(***************************************************************************)
\* Call c takes the step from pc1 to pc2.
Moves(c, op, pc1, pc2) ==
  /\ calls[c].op = op
  /\ calls[c].pc = pc1 /\ calls'[c].pc = pc2

\* The step starts a request of the handler op: the request is the last of
\* calls afterwards.
Starts(op) ==
  /\ Len(calls') = Len(calls) + 1
  /\ calls'[Len(calls')].op = op

\* Exactly one message carrying id is added to the work queue.
PublishedOnce(id) ==
  queue' = [j \in DOMAIN queue |-> IF j = id THEN queue[j] + 1 ELSE queue[j]]

\* The job as new_job and rejudge_job leave it: Queueing, Waiting, score
\* 0, every case Waiting with ids 0..N for the N cases of its problem.
AllWaiting(job) ==
  /\ job.state = "Queueing" /\ job.result = "Waiting" /\ job.score = 0
  /\ Len(job.cases) = 1 + Len(get_problem(job.pid).cases)
  /\ \A i \in 1..Len(job.cases) :
       job.cases[i].id = i - 1 /\ job.cases[i].result = "Waiting"

(***************************************************************************)
(* C14.  A successful new_job persists and returns a job that is Queueing, *)
(* Waiting, with score 0, created_time = updated_time and 1 + N cases with *)
(* ids 0..N, all Waiting, and publishes exactly one message with the id of *)
(* the job, after the row is persisted.                                    *)
(***************************************************************************)
C14_NewJobPersistsThenPublishes ==
  [][\A c \in DOMAIN calls :
       /\ Moves(c, "new_job", "insert", "publish") =>
            /\ calls[c].row \notin jobs
            /\ jobs' = jobs \cup {calls[c].row}
            /\ AllWaiting(calls[c].row)
            /\ calls[c].row.created = calls[c].row.updated
            /\ queue' = queue
       /\ (Moves(c, "new_job", "publish", "done") /\ calls'[c].ret = "Ok") =>
            /\ \E r \in jobs : r.id = calls[c].row.id
            /\ jobs' = jobs
            /\ PublishedOnce(calls[c].row.id)
            /\ calls'[c].row = calls[c].row
            /\ AllWaiting(calls'[c].row)
            /\ calls'[c].row.created = calls'[c].row.updated]_vars

\* C14, witness: new_job has returned a job of the two-case problem, which
\* is stored, and its message is in the queue.
C14_ReturnedAndQueued ==
  \E c \in DOMAIN calls :
    /\ calls[c].op = "new_job" /\ calls[c].ret = "Ok"
    /\ calls[c].row.pid = 0 /\ Len(calls[c].row.cases) = 3
    /\ calls[c].row \in jobs
    /\ queue[calls[c].row.id] = 1

(***************************************************************************)
(* C15.  When the publish of new_job fails, the call returns External and  *)
(* leaves the store as it is: the row it inserted stays stored, Queueing   *)
(* unless a cancel has since succeeded on it, and no message for it is     *)
(* ever in the queue or delivered to a worker.                             *)
(***************************************************************************)
C15_FailedPublishKeepsRow ==
  [][\A c \in DOMAIN calls' :
       (calls'[c].op = "new_job" /\ calls'[c].ret = "External") =>
         /\ (c \in DOMAIN calls /\ calls[c].pc = "publish") => (jobs' = jobs /\ queue' = queue)
         /\ \E r \in jobs' :
              /\ r.id = calls'[c].row.id
              /\ \/ r = calls'[c].row
                 \/ /\ r = [calls'[c].row EXCEPT !.state = "Canceled"]
                    /\ \E k \in DOMAIN calls' :   \* has made its write
                         /\ calls'[k].op = "cancel_job" /\ calls'[k].jid = r.id
                         /\ calls'[k].ret = "Ok" \/ calls'[k].pc = "select"
         /\ queue'[calls'[c].row.id] = 0
         /\ \A w \in Workers : wk'[w].deliv # calls'[c].row.id]_vars

\* C15, witness: new_job has returned External and its job is stored as
\* Queueing.
C15_ExternalAndStored ==
  \E c \in DOMAIN calls :
    /\ calls[c].op = "new_job" /\ calls[c].ret = "External"
    /\ calls[c].row \in jobs
    /\ calls[c].row.state = "Queueing"

(***************************************************************************)
(* C16.  rejudge(id) fails with NotFound when no job has the id and with   *)
(* InvalidState when the job it reads is not Finished, and then writes and *)
(* publishes nothing; for a job it reads as Finished it persists the job   *)
(* as Queueing, Waiting, score 0, every case Waiting, and then publishes   *)
(* the id once.                                                            *)
(***************************************************************************)
C16_RejudgeContract ==
  [][/\ Starts("rejudge_job") =>
          LET call == calls'[Len(calls')]
          IN /\ jobs' = jobs /\ queue' = queue
             /\ IF \E r \in jobs : r.id = call.jid
                  THEN call.ret = "" /\ call.pc = "get"
                  ELSE call.ret = "NotFound" /\ call.pc = "done"
     /\ \A c \in DOMAIN calls :
           /\ (calls[c].op = "rejudge_job" /\ calls[c].pc = "done") =>
                (calls'[c] = calls[c])
           /\ (calls[c].op = "rejudge_job" /\ calls[c].pc = "get"
                 /\ calls'[c].pc # "get") =>
                /\ jobs' = jobs /\ queue' = queue
                /\ \A r \in jobs :
                     r.id = calls[c].jid =>
                       IF r.state # "Finished"
                         THEN calls'[c].ret = "InvalidState" /\ calls'[c].pc = "done"
                         ELSE /\ calls'[c].ret = "" /\ calls'[c].pc = "now"
                              /\ calls'[c].row = r
           /\ Moves(c, "rejudge_job", "now", "update") =>
                /\ jobs' = jobs /\ queue' = queue
                /\ calls'[c].row.id = calls[c].jid
                /\ AllWaiting(calls'[c].row)
           /\ Moves(c, "rejudge_job", "select", "publish") =>
                (jobs' = jobs /\ queue' = queue)
           /\ (calls[c].op = "rejudge_job" /\ calls[c].pc = "update"
                 /\ calls'[c].pc # "update") =>
                /\ calls'[c].pc = "select"
                /\ \E r \in jobs' :
                     /\ r.id = calls[c].jid
                     /\ AllWaiting(r)
                     /\ r = calls[c].row
                /\ \A r \in jobs' : r.id # calls[c].jid => r \in jobs
                /\ queue' = queue
           /\ (Moves(c, "rejudge_job", "publish", "done") /\ calls'[c].ret = "Ok") =>
                /\ jobs' = jobs
                /\ PublishedOnce(calls[c].jid)]_vars

\* C16, witness: a rejudge has succeeded on a job that a worker had judged
\* to Finished, and the job is stored with every case Waiting again.
C16_RejudgedOnce ==
  \E c \in DOMAIN calls :
    /\ calls[c].op = "rejudge_job" /\ calls[c].ret = "Ok"
    /\ calls[c].seen = "Finished"
    /\ \E r \in jobs : r.id = calls[c].jid /\ AllWaiting(r)

(***************************************************************************)
(* C17.  cancel(id) goes on only for a job it reads as Queueing and then   *)
(* persists it as Canceled; for a job it reads as Running, Finished or     *)
(* Canceled it returns InvalidState and writes nothing.                    *)
(***************************************************************************)
C17_CancelContract ==
  [][/\ Starts("cancel_job") =>
          LET call == calls'[Len(calls')]
          IN /\ jobs' = jobs /\ queue' = queue
             /\ \A r \in jobs :
                  r.id = call.jid =>
                    IF r.state \in {"Running", "Finished", "Canceled"}
                      THEN call.ret = "InvalidState" /\ call.pc = "done"
                      ELSE /\ call.ret = "" /\ call.pc = "update"
                           /\ call.row = [r EXCEPT !.state = "Canceled"]
     /\ \A c \in DOMAIN calls :
           /\ (calls[c].op = "cancel_job" /\ calls[c].pc = "done") =>
                (calls'[c] = calls[c])
           /\ (calls[c].op = "cancel_job" /\ calls[c].pc = "select"
                 /\ calls'[c].pc # "select") =>
                /\ calls'[c].pc = "done" /\ calls'[c].ret = "Ok"
                /\ jobs' = jobs /\ queue' = queue
           /\ (calls[c].op = "cancel_job" /\ calls[c].pc = "update"
                 /\ calls'[c].pc # "update") =>
                /\ calls'[c].pc = "select"
                /\ calls[c].row.state = "Canceled"
                /\ calls[c].row \in jobs'
                /\ \A r \in jobs' : r.id # calls[c].jid => r \in jobs
                /\ queue' = queue]_vars

\* C17, witness: one cancel has succeeded and the job is stored as
\* Canceled.
C17_Canceled ==
  \E c \in DOMAIN calls :
    /\ calls[c].op = "cancel_job" /\ calls[c].ret = "Ok"
    /\ \E r \in jobs : r.id = calls[c].jid /\ r.state = "Canceled"

\* C17, second witness: a cancel of a job that was Running was refused.
C17_RefusedRunning ==
  \E c \in DOMAIN calls :
    /\ calls[c].op = "cancel_job" /\ calls[c].ret = "InvalidState"
    /\ calls[c].seen = "Running"

\* C17, third witness: a cancel of a job that was Finished was refused.
C17_RefusedFinished ==
  \E c \in DOMAIN calls :
    /\ calls[c].op = "cancel_job" /\ calls[c].ret = "InvalidState"
    /\ calls[c].seen = "Finished"

\* C17, fourth witness: a cancel has succeeded, a later cancel of the same
\* job read it as Canceled and was refused, and the job is stored as
\* Canceled.
C17_RefusedCanceled ==
  \E c, d \in DOMAIN calls :
    /\ c < d
    /\ calls[c].op = "cancel_job" /\ calls[c].ret = "Ok"
    /\ calls[d].op = "cancel_job" /\ calls[d].ret = "InvalidState"
    /\ calls[d].jid = calls[c].jid
    /\ calls[d].seen = "Canceled"
    /\ \E r \in jobs : r.id = calls[c].jid /\ r.state = "Canceled"

(***************************************************************************)
(* C18.  As claimed: a worker that loads job J after a cancel of J has     *)
(* committed acks the delivery without compiling or running anything, and  *)
(* J's row is not modified afterwards.  (Stated for the steps up to the    *)
(* ack of that delivery.)                                                  *)
(***************************************************************************)
\* Worker w has loaded the job of its delivery as Canceled and has not yet
\* acked the delivery.
SkippedCanceled(w) ==
  /\ wk[w].pc = "ack"
  /\ wk[w].job = NoRow

C18_CanceledStaysCanceled ==
  [][\A w \in Workers :
       /\ ( /\ wk[w].pc = "recv" /\ wk'[w].pc \notin {"recv", "crashed"}
            /\ \E r \in jobs : r.id = wk[w].deliv /\ r.state = "Canceled" )
          => (SkippedCanceled(w)' /\ jobs' = jobs)
       /\ SkippedCanceled(w) =>
            \A r \in jobs : r.id = wk[w].deliv => (r.state = "Canceled" /\ r \in jobs')]_vars

(***************************************************************************)
(* Ranklists.                                                              *)
(***************************************************************************)
\* The ranklist requests that have returned a ranklist.
Ranklists ==
  {c \in DOMAIN calls : /\ calls[c].op = "get_rank_list"
                        /\ calls[c].pc = "done"
                        /\ calls[c].ret = "Ok"}

\* The ranks of a response, in the order of its rows.
RanksOf(resp) == [i \in 1..Len(resp) |-> resp[i].rank]

(***************************************************************************)
(* C19.  In every ranklist that get_rank_list returns the first row has    *)
(* rank 1, and for consecutive rows i and i+1: rank_i <= rank_{i+1}, and   *)
(* rank_i = rank_{i+1} iff the tie breaker's compare declares the two rows *)
(* Equal.                                                                  *)
(***************************************************************************)
C19_RankMonotone ==
  \A c \in Ranklists :
    LET resp == calls[c].resp
        rows == calls[c].rank_list
    IN /\ Len(resp) = Len(rows)
       /\ Len(resp) > 0 => resp[1].rank = 1
       /\ \A i \in 1..(Len(resp) - 1) :
            /\ resp[i].user = rows[i].id
            /\ resp[i].rank <= resp[i + 1].rank
            /\ resp[i].rank = resp[i + 1].rank
                 <=> compare(calls[c].args.tb, rows[i], rows[i + 1]) = "Equal"

\* Under SubmissionCount a user with a submission is first; the two users
\* who never submitted are declared equal and share rank 2.
C19_SharedSecond ==
  \E c \in Ranklists :
    /\ calls[c].args.tb = "SubmissionCount"
    /\ RanksOf(calls[c].resp) = <<1, 2, 2>>
    /\ compare("SubmissionCount", calls[c].rank_list[1], calls[c].rank_list[2]) = "Less"
    /\ compare("SubmissionCount", calls[c].rank_list[2], calls[c].rank_list[3]) = "Equal"

(***************************************************************************)
(* C20.  Under the Default tie breaker the rank of every user of the       *)
(* ranklist is 1 plus the number of users of the ranklist whose total      *)
(* score is strictly greater: users with equal totals share a rank and     *)
(* the next total skips ranks.                                             *)
(***************************************************************************)
C20_CompetitionRanking ==
  \A c \in Ranklists :
    calls[c].args.tb = "Default" =>
      LET rows == calls[c].rank_list
          total(i) == total_score(rows[i].map).num
      IN \A i \in 1..Len(rows) :
           calls[c].resp[i].rank =
             1 + Cardinality({j \in 1..Len(rows) : total(j) > total(i)})

\* The key of the tie breaker for a row of rank_list.
TieKey(tb, row) ==
  IF tb = "SubmissionTime" THEN max_submission_time(row.map)
  ELSE IF tb = "SubmissionCount" THEN total_submission_count(row.map)
  ELSE IF tb = "UserId" THEN row.id
  ELSE 0

\* The total of a row, as a number.
TotalOf(row) == total_score(row.map).num

\* Row a is before row b by (total descending, tie breaker key, user id).
KeyBefore(tb, a, b) ==
  \/ TotalOf(a) > TotalOf(b)
  \/ TotalOf(a) = TotalOf(b) /\ TieKey(tb, a) < TieKey(tb, b)
  \/ TotalOf(a) = TotalOf(b) /\ TieKey(tb, a) = TieKey(tb, b) /\ a.id < b.id

\* The orders of n rows.
Orders(n) == {p \in [1..n -> 1..n] : \A i, j \in 1..n : p[i] = p[j] => i = j}

(***************************************************************************)
(* C21.  The rows of a ranklist are ordered by the key (total descending,  *)
(* tie breaker key, user id ascending), and the user id fixes only the     *)
(* order of the rows the tie breaker declares equal: under any other order *)
(* of those rows every user has the same rank.                             *)
(***************************************************************************)
C21_SortKey ==
  \A c \in Ranklists :
    LET rows == calls[c].rank_list
        tb == calls[c].args.tb
        n == Len(rows)
    IN /\ \A i, j \in 1..n : i < j => KeyBefore(tb, rows[i], rows[j])
       /\ \A p \in Orders(n) :
            (\A i, j \in 1..n :
               i < j => compare(tb, rows[p[i]], rows[p[j]]) # "Greater")
            => \A i \in 1..n :
                 Ranks(tb, [k \in 1..n |-> rows[p[k]]], n)[i] = calls[c].resp[p[i]].rank

(***************************************************************************)
(* C22.  Under the UserId tie breaker the ranks of a ranklist of n rows    *)
(* are 1, 2, ..., n in row order, and of two users with equal totals the   *)
(* one with the smaller id is ranked first.                                *)
(***************************************************************************)
C22_UserIdRanks ==
  \A c \in Ranklists :
    calls[c].args.tb = "UserId" =>
      LET rows == calls[c].rank_list
          resp == calls[c].resp
      IN /\ RanksOf(resp) = [i \in 1..Len(rows) |-> i]
         /\ \A i, j \in 1..Len(rows) :
              TotalOf(rows[i]) = TotalOf(rows[j]) /\ resp[i].user < resp[j].user
                => resp[i].rank < resp[j].rank

\* The user of the row has a submission on a problem of the ranklist.
Submitted(row) == DOMAIN row.map # {}

\* No selected submission of the row is later than time t, and one is at t.
LatestAt(row, t) ==
  /\ \E k \in DOMAIN row.map : row.map[k].submission_time = t
  /\ \A k \in DOMAIN row.map : row.map[k].submission_time <= t

(***************************************************************************)
(* C23.  Under the SubmissionTime tie breaker, of two users with equal     *)
(* totals the one whose latest selected submission (over all problems) is  *)
(* earlier is ranked first; a user without submissions is ranked after     *)
(* every user with the same total who has one; two users without           *)
(* submissions share a rank.                                               *)
(***************************************************************************)
C23_SubmissionTime ==
  \A c \in Ranklists :
    calls[c].args.tb = "SubmissionTime" =>
      LET rows == calls[c].rank_list
          resp == calls[c].resp
      IN \A i, j \in 1..Len(rows) :
           TotalOf(rows[i]) = TotalOf(rows[j]) =>
             /\ (\E t, u \in 0..MaxTime :
                   LatestAt(rows[i], t) /\ LatestAt(rows[j], u) /\ t < u)
                  => i < j /\ resp[i].rank < resp[j].rank
             /\ Submitted(rows[i]) /\ ~ Submitted(rows[j])
                  => i < j /\ resp[i].rank < resp[j].rank
             /\ ~ Submitted(rows[i]) /\ ~ Submitted(rows[j])
                  => resp[i].rank = resp[j].rank

\* Three users with total 0: the first submitted only at time 0, the second
\* at times 0 and 1 on two problems, the third never; their ranks are 1, 2, 3.
C23_LatestOfTwoProblems ==
  \E c \in Ranklists :
    /\ calls[c].args.tb = "SubmissionTime"
    /\ RanksOf(calls[c].resp) = <<1, 2, 3>>
    /\ \A i \in 1..3 : TotalOf(calls[c].rank_list[i]) = 0
    /\ LatestAt(calls[c].rank_list[1], 0)
    /\ Cardinality(DOMAIN calls[c].rank_list[2].map) = 2
    /\ LatestAt(calls[c].rank_list[2], 1)
    /\ ~ Submitted(calls[c].rank_list[3])

\* The stored jobs of the user on the problem in the contest.
JobsOf(uid, pid, cid) == {r \in jobs : r.uid = uid /\ r.pid = pid /\ r.cid = cid}

(***************************************************************************)
(* C24.  For every user and problem of a ranklist with at least one stored *)
(* job: under Latest the selected submission has the maximal created_time  *)
(* of those jobs; under Highest it has the maximal score and, of the jobs  *)
(* with that score, the minimal created_time; the submission count is the  *)
(* number of those jobs under either rule.  A user without a job on the    *)
(* problem has no result for it.                                           *)
(***************************************************************************)
C24_ScoringRules ==
  \A c \in Ranklists :
    LET cid == calls[c].args.cid
        rows == calls[c].rank_list
    IN \A i \in 1..Len(rows) : \A pid \in Elems(RankProblems(cid)) :
         LET of == JobsOf(rows[i].id, pid, cid)
         IN IF of = {} THEN pid \notin DOMAIN rows[i].map
            ELSE /\ pid \in DOMAIN rows[i].map
                 /\ rows[i].map[pid].submission_count = Cardinality(of)
                 /\ \E sel \in of :
                      /\ rows[i].map[pid].score = sel.score
                      /\ rows[i].map[pid].submission_time = sel.created
                      /\ calls[c].args.rule = "Latest" =>
                           \A r \in of : r.created <= sel.created
                      /\ calls[c].args.rule = "Highest" =>
                           /\ \A r \in of : r.score <= sel.score
                           /\ \A r \in of : r.score = sel.score => sel.created <= r.created

\* Under Highest a user has two jobs with the maximal score on a problem,
\* created at different times: the earlier is selected, and counted are both.
C24_EarlierOfTheHighest ==
  \E c \in Ranklists : \E i \in DOMAIN calls[c].rank_list :
    \E pid \in DOMAIN calls[c].rank_list[i].map :
      LET of == JobsOf(calls[c].rank_list[i].id, pid, calls[c].args.cid)
          res == calls[c].rank_list[i].map[pid]
      IN /\ calls[c].args.rule = "Highest"
         /\ res.submission_count = 2
         /\ res.score > 0
         /\ \A r \in of : r.score = res.score
         /\ \E r \in of : r.created > res.submission_time

\* The users and the problems of the ranklist of a contest, from the
\* contest as it was posted.
ExpectedUsers(cid) == IF cid = 0 THEN Users ELSE Elems(ApiContests[cid].user_ids)

ExpectedProblems(cid) ==
  IF cid = 0 THEN [i \in DOMAIN Problems |-> i - 1]
  ELSE SelectSeq(ApiContests[cid].problem_ids, LAMBDA pid : pid \in ProblemIds)

\* The rows of a response are as C25 states for the contest.
RowsOfContest(resp, cid) ==
  /\ {resp[i].user : i \in DOMAIN resp} = ExpectedUsers(cid)
  /\ Len(resp) = Cardinality(ExpectedUsers(cid))
  /\ \A i \in DOMAIN resp :
       /\ Len(resp[i].scores) = Len(ExpectedProblems(cid))
       /\ \A k \in DOMAIN resp[i].scores :
            LET of == JobsOf(resp[i].user, ExpectedProblems(cid)[k], cid)
            IN IF of = {} THEN resp[i].scores[k] = 0
               ELSE \E r \in of : resp[i].scores[k] = r.score

(***************************************************************************)
(* C25.  The ranklist of a contest has exactly one row for each user of    *)
(* the contest's user_ids (of contest 0: for every user), users without    *)
(* submissions included, and the scores of a row have one entry for each   *)
(* problem id of the contest that the config has, in the order of the      *)
(* list, 0 for a problem on which the user has no submission.              *)
(***************************************************************************)
C25_RowsAndScores ==
  \A c \in DOMAIN calls :
    /\ calls[c].op = "get_rank_list"
    /\ calls[c].pc = "done"
    /\ calls[c].args.cid = 0 \/ does_contest_exist(calls[c].args.cid)
    => /\ calls[c].ret = "Ok"
       /\ RowsOfContest(calls[c].resp, calls[c].args.cid)

(***************************************************************************)
(* C26.  The ranklist is computed from finished submissions only: the      *)
(* selected submission of a user on a problem is a job whose state is      *)
(* Finished, and every score of the response is 0 or the score of a        *)
(* Finished job of that user on that problem.                              *)
(***************************************************************************)
C26_FinishedOnly ==
  \A c \in Ranklists :
    LET cid == calls[c].args.cid
        rows == calls[c].rank_list
        resp == calls[c].resp
    IN \A i \in 1..Len(rows) :
         /\ \A pid \in DOMAIN rows[i].map :
              \E r \in JobsOf(rows[i].id, pid, cid) :
                /\ r.state = "Finished"
                /\ r.score = rows[i].map[pid].score
                /\ r.created = rows[i].map[pid].submission_time
         /\ \A k \in DOMAIN resp[i].scores :
              \/ resp[i].scores[k] = 0
              \/ \E r \in JobsOf(resp[i].user, RankProblems(cid)[k], cid) :
                   r.state = "Finished" /\ r.score = resp[i].scores[k]

(***************************************************************************)
(* The job store and its queries (persistent/models/jobs.rs, api/jobs.rs). *)
(* A job of the API is stored as a flat row whose job_state and result     *)
(* columns are integers and whose cases column is JSON text; an optional   *)
(* value is the empty sequence (None) or a one-element sequence (Some).    *)
(***************************************************************************)
MaxQueryJobs == 2      \* stored jobs of the query specification
MaxFilterFields == 2   \* fields present in one filter
MaxQueryCalls == 1     \* requests per run of the query specification

\* ToSql for JobStatus: `*self as i32`, the position in the declaration.
JobStatus_to_sql(v) ==
  CASE v = "Queueing" -> 0 [] v = "Running" -> 1
    [] v = "Finished" -> 2 [] v = "Canceled" -> 3

\* FromSql for JobStatus: the match on the integer read from the column.
JobStatus_from_sql(x) ==
  CASE x = 0 -> "Queueing" [] x = 1 -> "Running"
    [] x = 2 -> "Finished" [] x = 3 -> "Canceled"
    [] OTHER -> "Unrecognized enum variant"

\* ToSql for JobResult: `*self as i32`, the position in the declaration.
JobResult_to_sql(v) ==
  CASE v = "Waiting" -> 0 [] v = "Running" -> 1 [] v = "Accepted" -> 2
    [] v = "CompilationError" -> 3 [] v = "CompilationSuccess" -> 4
    [] v = "WrongAnswer" -> 5 [] v = "RuntimeError" -> 6
    [] v = "TimeLimitExceeded" -> 7 [] v = "MemoryLimitExceeded" -> 8
    [] v = "SystemError" -> 9 [] v = "SpjError" -> 10 [] v = "Skipped" -> 11

\* A FromSql for JobResult that reads the codes 0 and 2 the other way round.
JobResult_from_sql_swapped(x) ==
  CASE x = 2 -> "Waiting" [] x = 1 -> "Running" [] x = 0 -> "Accepted"
    [] x = 3 -> "CompilationError" [] x = 4 -> "CompilationSuccess"
    [] x = 5 -> "WrongAnswer" [] x = 6 -> "RuntimeError"
    [] x = 7 -> "TimeLimitExceeded" [] x = 8 -> "MemoryLimitExceeded"
    [] x = 9 -> "SystemError" [] x = 10 -> "SpjError" [] x = 11 -> "Skipped"
    [] OTHER -> "Unrecognized enum variant"

\* FromSql for JobResult: the match on the integer read from the column.
JobResult_from_sql(x) ==
  CASE x = 0 -> "Waiting" [] x = 1 -> "Running" [] x = 2 -> "Accepted"
    [] x = 3 -> "CompilationError" [] x = 4 -> "CompilationSuccess"
    [] x = 5 -> "WrongAnswer" [] x = 6 -> "RuntimeError"
    [] x = 7 -> "TimeLimitExceeded" [] x = 8 -> "MemoryLimitExceeded"
    [] x = 9 -> "SystemError" [] x = 10 -> "SpjError" [] x = 11 -> "Skipped"
    [] OTHER -> "Unrecognized enum variant"

\* ToSql for CaseResults: the JSON text of the list, every result under
\* the name serde gives its variant.
CaseResults_to_sql(cases) ==
  LET name(v) ==
        CASE v = "CompilationError" -> "Compilation Error"
          [] v = "CompilationSuccess" -> "Compilation Success"
          [] v = "WrongAnswer" -> "Wrong Answer"
          [] v = "RuntimeError" -> "Runtime Error"
          [] v = "TimeLimitExceeded" -> "Time Limit Exceeded"
          [] v = "MemoryLimitExceeded" -> "Memory Limit Exceeded"
          [] v = "SystemError" -> "System Error"
          [] v = "SpjError" -> "SPJ Error"
          [] OTHER -> v
  IN [i \in 1..Len(cases) |-> [id |-> cases[i].id, result |-> name(cases[i].result)]]

\* FromSql for CaseResults: the list parsed from the JSON text.
CaseResults_from_sql(s) ==
  LET variant(n) ==
        CASE n = "Waiting" -> "Waiting" [] n = "Running" -> "Running"
          [] n = "Accepted" -> "Accepted"
          [] n = "Compilation Error" -> "CompilationError"
          [] n = "Compilation Success" -> "CompilationSuccess"
          [] n = "Wrong Answer" -> "WrongAnswer"
          [] n = "Runtime Error" -> "RuntimeError"
          [] n = "Time Limit Exceeded" -> "TimeLimitExceeded"
          [] n = "Memory Limit Exceeded" -> "MemoryLimitExceeded"
          [] n = "System Error" -> "SystemError"
          [] n = "SPJ Error" -> "SpjError" [] n = "Skipped" -> "Skipped"
          [] OTHER -> "unknown variant"
  IN [i \in 1..Len(s) |-> CaseResult(s[i].id, variant(s[i].result))]

\* From<api::jobs::Job> for models::Job, as the row the store keeps: the
\* submission is flattened, naive_utc() keeps the instant of a timestamp,
\* the casts to i32 keep an id below 2^31, and the three typed columns go
\* through their ToSql.
ModelsJob(job) ==
  [id |-> job.id, created_time |-> job.created, updated_time |-> job.updated,
   lang |-> job.lang, user_id |-> job.uid, contest_id |-> job.cid,
   problem_id |-> job.pid, job_state |-> JobStatus_to_sql(job.state),
   result |-> JobResult_to_sql(job.result), score |-> job.score,
   cases |-> CaseResults_to_sql(job.cases)]

\* From<models::Job> for api::jobs::Job, from the row the store keeps: the
\* three typed columns go through their FromSql.
ApiJob(row) ==
  [id |-> row.id, lang |-> row.lang, pid |-> row.problem_id,
   uid |-> row.user_id, cid |-> row.contest_id,
   created |-> row.created_time, updated |-> row.updated_time,
   state |-> JobStatus_from_sql(row.job_state),
   result |-> JobResult_from_sql(row.result), score |-> row.score,
   cases |-> CaseResults_from_sql(row.cases)]

\* The names of the users of the store; the id of a user is its position.
UserNames == <<"root", "alice", "bob">>

get_id_by_username(name) ==
  IF \E u \in Users : UserNames[u + 1] = name
    THEN <<CHOOSE u \in Users : UserNames[u + 1] = name>>
    ELSE <<>>

\* A get_jobs whose `to` bound is exclusive.
get_jobs_exclusive_to(table, filt, uid) ==
  LET keep(r) ==
        /\ filt.user_id # <<>> => r.user_id = filt.user_id[1]
        /\ uid # <<>> => r.user_id = uid[1]
        /\ filt.contest_id # <<>> => r.contest_id = filt.contest_id[1]
        /\ filt.problem_id # <<>> => r.problem_id = filt.problem_id[1]
        /\ filt.language # <<>> => r.lang = filt.language[1]
        /\ filt.from # <<>> => r.created_time >= filt.from[1]
        /\ filt.to # <<>> => r.created_time < filt.to[1]
        /\ filt.state # <<>> => r.job_state = JobStatus_to_sql(filt.state[1])
        /\ filt.result # <<>> => r.result = JobResult_to_sql(filt.result[1])
  IN SelectSeq(table, keep)

\* get_jobs, the load of the query: one filter for every field that is
\* present, uid being the id that get_id_by_username found for user_name;
\* the rows come in the order of the table.
get_jobs(table, filt, uid) ==
  LET keep(r) ==
        /\ filt.user_id # <<>> => r.user_id = filt.user_id[1]
        /\ uid # <<>> => r.user_id = uid[1]
        /\ filt.contest_id # <<>> => r.contest_id = filt.contest_id[1]
        /\ filt.problem_id # <<>> => r.problem_id = filt.problem_id[1]
        /\ filt.language # <<>> => r.lang = filt.language[1]
        /\ filt.from # <<>> => r.created_time >= filt.from[1]
        /\ filt.to # <<>> => r.created_time <= filt.to[1]
        /\ filt.state # <<>> => r.job_state = JobStatus_to_sql(filt.state[1])
        /\ filt.result # <<>> => r.result = JobResult_to_sql(filt.result[1])
  IN SelectSeq(table, keep)

\* The filters of the requests: at most MaxFilterFields fields present.
JobFilters ==
  LET present(f) == {k \in DOMAIN f : f[k] # <<>>}
  IN {f \in [user_id : {<<>>, <<0>>}, user_name : {<<>>, <<"alice">>, <<"nobody">>},
             contest_id : {<<>>, <<2>>}, problem_id : {<<>>, <<1>>},
             language : {<<>>, <<"Rust">>, <<"C++">>},
             from : {<<>>, <<1>>}, to : {<<>>, <<0>>},
             state : {<<>>, <<"Finished">>}, result : {<<>>, <<"Accepted">>}] :
        Cardinality(present(f)) <= MaxFilterFields}

\* The job table as the query reads it, in the order of the ids.
JobTable ==
  [i \in 1..Cardinality(jobs) |-> ModelsJob(CHOOSE j \in jobs : j.id = i - 1)]

\* The response of GET /jobs: each row converted to a job of the API.
GetJobsResponse(call, rows) ==
  [call EXCEPT !.pc = "done", !.ret = "Ok",
               !.resp = [i \in 1..Len(rows) |-> ApiJob(rows[i])]]

\* GET /jobs, the first statement: with a user_name in the filter it is
\* get_id_by_username (-1 when no user has the name), else the load.
GetJobs(filt, max) ==
  /\ Len(calls) < max
  /\ LET call == [Call("get_jobs", "load", "None", NoRow, "None") EXCEPT
                    !.args = filt]
     IN IF filt.user_name # <<>>
          THEN calls' = Append(calls,
                 [call EXCEPT
                    !.uid = IF get_id_by_username(filt.user_name[1]) # <<>>
                              THEN get_id_by_username(filt.user_name[1])
                              ELSE <<-1>>])
        ELSE calls' = Append(calls,
               GetJobsResponse(call, get_jobs(JobTable, filt, <<>>)))
  /\ UNCHANGED <<jobs, queue, wk, crashes, now, neutral, contests>>

\* GET /jobs with a user_name: the load, after get_id_by_username.
GetJobsLoad(c) ==
  /\ calls[c].op = "get_jobs" /\ calls[c].pc = "load"
  /\ calls' = [calls EXCEPT
       ![c] = GetJobsResponse(calls[c],
                              get_jobs(JobTable, calls[c].args, calls[c].uid))]
  /\ UNCHANGED <<jobs, queue, wk, crashes, now, neutral, contests>>

\* A read of one typed column that holds the integer x.
FromSql(column, x, max) ==
  /\ Len(calls) < max
  /\ calls' = Append(calls,
       [Call("from_sql", "done", "None", NoRow,
             IF column = "job_state" THEN JobStatus_from_sql(x)
                                     ELSE JobResult_from_sql(x)) EXCEPT
          !.args = [column |-> column, x |-> x]])
  /\ UNCHANGED <<jobs, queue, wk, crashes, now, neutral, contests>>

\* Error::new: the code of the reason.
Error_new(reason, message) ==
  [code |-> CASE reason = "InvalidArgument" -> 1 [] reason = "InvalidState" -> 2
              [] reason = "NotFound" -> 3 [] reason = "RateLimit" -> 4
              [] reason = "External" -> 5 [] reason = "Internal" -> 6
              [] reason = "Forbidden" -> 7,
   reason |-> reason, message |-> message]

\* The four From impls of Error: a failure of the store (diesel), of the
\* connection pool (r2d2), of the blocking thread pool or of the
\* authorization middleware.
Error_from(err) ==
  CASE err.from = "diesel" ->
         (CASE err.kind = "NotFound" -> Error_new("NotFound", "Not Found")
            [] err.kind = "DatabaseError" -> Error_new("External", "Database error")
            [] err.kind = "AlreadyInTransaction" -> Error_new("External", "Database error")
            [] err.kind = "BrokenTransactionManager" -> Error_new("External", "Database error")
            [] OTHER -> Error_new("External", "Database error"))
    [] err.from = "r2d2" -> Error_new("External", "Database error")
    [] err.from = "BlockingError" -> Error_new("External", "Database error")
    [] err.from = "AuthError" -> Error_new("Internal", "Authorization error")

\* A status_code that answers a missing row with 400.
status_code_bad_request(error) ==
  CASE error.reason = "InvalidArgument" -> 400 [] error.reason = "InvalidState" -> 400
    [] error.reason = "NotFound" -> 400 [] error.reason = "RateLimit" -> 400
    [] error.reason = "External" -> 500 [] error.reason = "Internal" -> 500
    [] error.reason = "Forbidden" -> 403

\* ResponseError::status_code: the HTTP status of the reason.
status_code(error) ==
  CASE error.reason = "InvalidArgument" -> 400 [] error.reason = "InvalidState" -> 400
    [] error.reason = "NotFound" -> 404 [] error.reason = "RateLimit" -> 400
    [] error.reason = "External" -> 500 [] error.reason = "Internal" -> 500
    [] error.reason = "Forbidden" -> 403

\* A request that fails: the handler builds the error of a reason, or the
\* `?` operator converts a failure, and error_response answers with the
\* status of the error and the error as the body.
ErrorResponse(cause, max) ==
  /\ Len(calls) < max
  /\ LET error == IF cause.from = "Reason" THEN Error_new(cause.kind, "message")
                                            ELSE Error_from(cause)
     IN calls' = Append(calls,
          [Call("error_response", "done", "None", NoRow, error.reason) EXCEPT
             !.args = cause,
             !.resp = <<[status |-> status_code(error), body |-> error]>>])
  /\ UNCHANGED <<jobs, queue, wk, crashes, now, neutral, contests>>

\* The query specification: a store of at most MaxQueryJobs jobs of the
\* users 0 and 1, waiting or judged, then the requests.
QueryInit ==
  /\ \E n \in 0..MaxQueryJobs :
     \E f \in [0..(n - 1) -> {ch \in RankChoices : ch[1] \in {0, 1} /\ ch[3] # 0}] :
       /\ jobs = {RankRow(i, f[i]) : i \in 0..(n - 1)}
  /\ queue = [j \in QueueIds |-> 0]
  /\ calls = <<>>
  /\ wk = [w \in Workers |-> IdleWorker]
  /\ crashes = 0
  /\ now = MaxRankTime
  /\ neutral = "0.0"
  /\ contests = Contests

QueryNext ==
  \/ \E filt \in JobFilters : GetJobs(filt, MaxQueryCalls)
  \/ \E c \in DOMAIN calls : GetJobsLoad(c)
  \/ \E column \in {"job_state", "result"}, x \in -1..12 :
       FromSql(column, x, MaxQueryCalls)
  \/ \E cause \in
          [from : {"Reason"},
           kind : {"InvalidArgument", "InvalidState", "NotFound", "RateLimit",
                   "External", "Internal", "Forbidden"}]
          \cup [from : {"diesel"},
                kind : {"NotFound", "DatabaseError", "AlreadyInTransaction",
                        "BrokenTransactionManager", "RollbackTransaction",
                        "DeserializationError", "QueryBuilderError"}]
          \cup [from : {"r2d2", "BlockingError", "AuthError"}, kind : {"Error"}] :
       ErrorResponse(cause, MaxQueryCalls)

QuerySpec == QueryInit /\ [][QueryNext]_vars

\* The jobs a filter asks for, said of the jobs of the API: every field
\* that is present holds of the job.
Satisfies(j, filt) ==
  /\ filt.user_id # <<>> => j.uid = filt.user_id[1]
  /\ filt.user_name # <<>> =>
       \E u \in Users : UserNames[u + 1] = filt.user_name[1] /\ j.uid = u
  /\ filt.contest_id # <<>> => j.cid = filt.contest_id[1]
  /\ filt.problem_id # <<>> => j.pid = filt.problem_id[1]
  /\ filt.language # <<>> => j.lang = filt.language[1]
  /\ filt.from # <<>> => filt.from[1] <= j.created
  /\ filt.to # <<>> => j.created <= filt.to[1]
  /\ filt.state # <<>> => j.state = filt.state[1]
  /\ filt.result # <<>> => j.result = filt.result[1]

JobQueries == {c \in Elems(calls) : c.op = "get_jobs" /\ c.pc = "done"}

\* C27: get_jobs returns exactly the stored jobs that satisfy every field
\* of the filter that is present, each once; from and to bound created_time
\* inclusively; a user_name of no user yields the empty result and the
\* empty filter yields every job.
C27_FilterConjunction ==
  \A c \in JobQueries :
    /\ {c.resp[i].id : i \in 1..Len(c.resp)}
         = {j.id : j \in {r \in jobs : Satisfies(r, c.args)}}
    /\ \A i, k \in 1..Len(c.resp) : c.resp[i].id = c.resp[k].id => i = k
    /\ (c.args.from # <<>> /\ \E j \in jobs : j.created = c.args.from[1] /\
          Satisfies(j, [c.args EXCEPT !.from = <<>>]))
         => \E i \in 1..Len(c.resp) : c.resp[i].created = c.args.from[1]
    /\ (c.args.to # <<>> /\ \E j \in jobs : j.created = c.args.to[1] /\
          Satisfies(j, [c.args EXCEPT !.to = <<>>]))
         => \E i \in 1..Len(c.resp) : c.resp[i].created = c.args.to[1]
    /\ (c.args.user_name # <<>> /\ ~ Contains(UserNames, c.args.user_name[1]))
         => c.resp = <<>>
    /\ (\A k \in DOMAIN c.args : c.args[k] = <<>>) => Len(c.resp) = Cardinality(jobs)

\* A filter of two fields, from and state, that returns one of two stored
\* jobs, the one created at the bound.
C27_OneOfTwoJobs ==
  \E c \in JobQueries :
    /\ Cardinality(jobs) = 2
    /\ c.args.from = <<1>> /\ c.args.state = <<"Finished">>
    /\ Len(c.resp) = 1 /\ c.resp[1].created = 1 /\ c.resp[1].state = "Finished"

\* C28: a job read from the store is the job that was stored, field for
\* field; the codes of job_state are 0..3 and those of result 0..11 in the
\* order of the layout, reading the code of a variant yields the variant,
\* and reading any other integer is an error.
C28_RoundTrip ==
  /\ \A c \in JobQueries : \A i \in 1..Len(c.resp) : c.resp[i] \in jobs
  /\ \A j \in jobs : ApiJob(ModelsJob(j)) = j
  /\ \A v \in JobStatus : JobStatus_from_sql(JobStatus_to_sql(v)) = v
  /\ \A v \in JobResult : JobResult_from_sql(JobResult_to_sql(v)) = v
  /\ <<JobStatus_to_sql("Queueing"), JobStatus_to_sql("Running"),
       JobStatus_to_sql("Finished"), JobStatus_to_sql("Canceled")>> = <<0, 1, 2, 3>>
  /\ <<JobResult_to_sql("Waiting"), JobResult_to_sql("Running"),
       JobResult_to_sql("Accepted"), JobResult_to_sql("CompilationError"),
       JobResult_to_sql("CompilationSuccess"), JobResult_to_sql("WrongAnswer"),
       JobResult_to_sql("RuntimeError"), JobResult_to_sql("TimeLimitExceeded"),
       JobResult_to_sql("MemoryLimitExceeded"), JobResult_to_sql("SystemError"),
       JobResult_to_sql("SpjError"), JobResult_to_sql("Skipped")>>
       = <<0, 1, 2, 3, 4, 5, 6, 7, 8, 9, 10, 11>>
  /\ \A c \in Elems(calls) : c.op = "from_sql" =>
       IF c.args.column = "job_state"
         THEN IF c.args.x \in 0..3
                THEN c.ret \in JobStatus /\ JobStatus_to_sql(c.ret) = c.args.x
                ELSE c.ret \notin JobStatus
         ELSE IF c.args.x \in 0..11
                THEN c.ret \in JobResult /\ JobResult_to_sql(c.ret) = c.args.x
                ELSE c.ret \notin JobResult

\* A judged job and a waiting job are stored and both are read back, the
\* judged one with its accepted cases.
C28_JudgedJobReadBack ==
  \E c \in JobQueries :
    /\ Len(c.resp) = 2
    /\ c.resp[1].state = "Finished" /\ c.resp[1].result = "Accepted"
    /\ \E k \in 1..Len(c.resp[1].cases) : c.resp[1].cases[k].result = "Accepted"
    /\ c.resp[2].state = "Queueing" /\ c.resp[2].result = "Waiting"
    /\ {c.resp[1], c.resp[2]} = jobs

ErrorResponses == {c \in Elems(calls) : c.op = "error_response"}

\* C29: every error carries the code and the HTTP status of its reason:
\* InvalidArgument (1, 400), InvalidState (2, 400), NotFound (3, 404),
\* RateLimit (4, 400), External (5, 500), Internal (6, 500), Forbidden
\* (7, 403); a failure of the store or of the connection pool is External,
\* except that a row not found is NotFound.
C29_CodesAndStatuses ==
  \A c \in ErrorResponses :
    LET error == c.resp[1].body
    IN /\ <<error.reason, error.code, c.resp[1].status>> \in
            {<<"InvalidArgument", 1, 400>>, <<"InvalidState", 2, 400>>,
             <<"NotFound", 3, 404>>, <<"RateLimit", 4, 400>>,
             <<"External", 5, 500>>, <<"Internal", 6, 500>>,
             <<"Forbidden", 7, 403>>}
       /\ c.args.from = "Reason" => error.reason = c.args.kind
       /\ c.args.from = "r2d2" => error.reason = "External"
       /\ c.args.from = "diesel" =>
            error.reason = IF c.args.kind = "NotFound" THEN "NotFound" ELSE "External"

\* A row that is not found is answered with code 3 and status 404.
C29_RowNotFound ==
  \E c \in ErrorResponses :
    /\ c.args = [from |-> "diesel", kind |-> "NotFound"]
    /\ c.resp[1].body.code = 3 /\ c.resp[1].status = 404

(***************************************************************************)
(* The comparison of the output of a program with the answer of the case   *)
(* (judge.rs).  A text is the sequence of its characters.                  *)
(***************************************************************************)
MaxTextLen == 4   \* characters of an output or an answer

\* The characters with the Unicode property White_Space (char::is_whitespace).
\* A character of a text is a string: an ASCII character is itself, another
\* character is named by its code point.
White_Space ==
  {"\t", "\n", "U+000B", "\f", "\r", " ", "U+0085", "U+00A0", "U+1680",
   "U+2000", "U+2001", "U+2002", "U+2003", "U+2004", "U+2005", "U+2006",
   "U+2007", "U+2008", "U+2009", "U+200A", "U+2028", "U+2029", "U+202F",
   "U+205F", "U+3000"}

\* str::trim_end: the text without its trailing whitespace.
RECURSIVE trim_end(_)
trim_end(text) ==
  IF text # <<>> /\ text[Len(text)] \in White_Space
    THEN trim_end(SubSeq(text, 1, Len(text) - 1))
    ELSE text

\* A trim that puts the newline back between the lines.
trim_keeping_lines(text) ==
  LET RECURSIVE push(_)
      push(buf) ==
        LET nl == {i \in 1..Len(buf) : buf[i] = "\n"}
        IN IF nl = {} THEN trim_end(buf)
           ELSE LET i == CHOOSE k \in nl : \A m \in nl : k <= m
                IN trim_end(SubSeq(buf, 1, i - 1)) \o <<"\n">>
                     \o push(SubSeq(buf, i + 1, Len(buf)))
  IN push(trim_end(text))

\* trim: trim_end of the buffer, then for every line of split('\n') the
\* line's trim_end is pushed to the result.
trim(text) ==
  LET RECURSIVE push(_)
      push(buf) ==
        LET nl == {i \in 1..Len(buf) : buf[i] = "\n"}
        IN IF nl = {} THEN trim_end(buf)
           ELSE LET i == CHOOSE k \in nl : \A m \in nl : k <= m
                IN trim_end(SubSeq(buf, 1, i - 1))
                     \o push(SubSeq(buf, i + 1, Len(buf)))
  IN push(trim_end(text))

\* The environment of a case whose program exited successfully in time and
\* whose two files are read: Standard compares the trimmed texts, Strict
\* the texts as they are read.
FileEnv(typ, output, answer) ==
  Env("none", FALSE,
      IF typ = "Standard" THEN trim(output) = trim(answer) ELSE output = answer)

\* The loop body of judge on the case of a request.
CompareCase(c) ==
  /\ calls[c].op = "judge" /\ calls[c].pc = "run"
  /\ LET a == calls[c].args
         problem == CHOOSE p \in Elems(Problems) : p.typ = a.typ
     IN calls' = [calls EXCEPT
          ![c].pc = "done",
          ![c].ret = JudgeCase(a.typ, problem.cases[1],
                               FileEnv(a.typ, a.output, a.answer)).result]
  /\ UNCHANGED <<jobs, queue, wk, crashes, now, neutral, contests>>

\* The comparison specification: a case of a Standard or of a Strict
\* problem with the output of the program and the answer, texts of at most
\* MaxTextLen characters: a letter, the space, the newline and the form
\* feed.
CompareInit ==
  /\ \E typ \in {"Standard", "Strict"} :
     \E m, n \in 0..MaxTextLen :
     \E output \in [1..m -> {"a", " ", "\n", "\f"}],
        answer \in [1..n -> {"a", " ", "\n", "\f"}] :
       calls = <<[Call("judge", "run", "None", NoRow, "") EXCEPT
                    !.args = [typ |-> typ, output |-> output, answer |-> answer]]>>
  /\ jobs = {}
  /\ queue = [j \in QueueIds |-> 0]
  /\ wk = [w \in Workers |-> IdleWorker]
  /\ crashes = 0
  /\ now = 0
  /\ neutral = "0.0"
  /\ contests = Contests

CompareNext == \E c \in DOMAIN calls : CompareCase(c)

CompareSpec == CompareInit /\ [][CompareNext]_vars

\* The text without its newlines and without the whitespace that only
\* whitespace follows on its line.
Normalize(text) ==
  LET kept(i) ==
        /\ text[i] # "\n"
        /\ \E j \in i..Len(text) :
             /\ text[j] \notin White_Space
             /\ \A k \in i..j : text[k] # "\n"
      F[k \in 0..Len(text)] ==
        IF k = 0 THEN <<>>
        ELSE IF kept(k) THEN Append(F[k - 1], text[k]) ELSE F[k - 1]
  IN F[Len(text)]

Compared == {c \in Elems(calls) : c.op = "judge" /\ c.pc = "done"}

\* C30: a case of a Standard problem whose program exits successfully in
\* time is Accepted iff output and answer are the same after the trailing
\* whitespace of the text and of every line and the newlines are removed,
\* and is a Wrong Answer otherwise; normalizing twice changes nothing; a
\* case of a Strict problem is Accepted iff output and answer are the same
\* character for character.
C30_CompareOutput ==
  \A c \in Compared :
    /\ c.ret \in {"Accepted", "WrongAnswer"}
    /\ c.args.typ = "Standard" =>
         /\ c.ret = "Accepted" <=> Normalize(c.args.output) = Normalize(c.args.answer)
         /\ trim(c.args.output) = Normalize(c.args.output)
         /\ trim(trim(c.args.output)) = trim(c.args.output)
         /\ Normalize(Normalize(c.args.output)) = Normalize(c.args.output)
    /\ c.args.typ = "Strict" => (c.ret = "Accepted" <=> c.args.output = c.args.answer)

\* An output of two lines with trailing whitespace on the first is
\* Accepted against the answer without it.
C30_TrailingWhitespaceAccepted ==
  \E c \in Compared :
    /\ c.args.typ = "Standard" /\ c.ret = "Accepted"
    /\ c.args.output = <<"a", " ", "\n", "a">>
    /\ c.args.answer = <<"a", "\n", "a">>

(***************************************************************************)
(* The wait for the program of a case and the time of its run (judge.rs).  *)
(* Times are counted in units of 4 microseconds, so that the 2^32          *)
(* microseconds at which a u32 wraps are 2^30 units and the 500 ms after   *)
(* the time limit are 125000 units.                                        *)
(***************************************************************************)
\* A wait that takes a failed kill for a successful one.
RunEnvKillIgnored(case, run) ==
  IF ~ run.wait_ok THEN Env("wait", FALSE, run.eq)
  ELSE IF case.time_limit # 0 /\ run.elapsed > case.time_limit + 125000
    THEN Env("timeout", FALSE, run.eq)
  ELSE IF ~ run.success THEN Env("exit_status", FALSE, run.eq)
  ELSE Env("none", (run.elapsed % (2 ^ 30)) > case.time_limit, run.eq)

\* What the wait of a run brings: the program would exit `elapsed` after
\* its start, successfully or not; wait_timeout and kill succeed or fail.
\* wait_timeout waits time_limit + 500 ms, or without end for the limit 0;
\* the time of a run that exited is `elapsed.as_micros() as u32`.
RunEnv(case, run) ==
  IF ~ run.wait_ok THEN Env("wait", FALSE, run.eq)
  ELSE IF case.time_limit # 0 /\ run.elapsed > case.time_limit + 125000
    THEN Env(IF run.kill_ok THEN "timeout" ELSE "timeout_kill", FALSE, run.eq)
  ELSE IF ~ run.success THEN Env("exit_status", FALSE, run.eq)
  ELSE Env("none", (run.elapsed % (2 ^ 30)) > case.time_limit, run.eq)

\* The calls of child.kill() under an environment.
Kills(e) == IF e.fail \in {"timeout", "timeout_kill", "wait"} THEN 1 ELSE 0

\* The loop body of judge on the run of a request.
JudgeRun(c) ==
  /\ calls[c].op = "run" /\ calls[c].pc = "run"
  /\ LET a == calls[c].args
         e == RunEnv(a.case, a.run)
         v == JudgeCase("Standard", a.case, e)
     IN calls' = [calls EXCEPT
          ![c].pc = "done",
          ![c].ret = v.result,
          ![c].resp = <<[kind |-> v.kind, add |-> v.add, kills |-> Kills(e),
                         fail |-> e.fail]>>]
  /\ UNCHANGED <<jobs, queue, wk, crashes, now, neutral, contests>>

\* The timing specification: a case without a time limit, with a limit of
\* 100 ms or with the largest limit, and a run around each bound.
TimingInit ==
  /\ \E time_limit \in {0, 25000, 2 ^ 30 - 1} :
     \E elapsed \in {1, 25000, 25001, 150000, 150001, 2 ^ 30 - 1, 2 ^ 30,
                     2 ^ 30 + 124999, 2 ^ 30 + 125000} :
     \E success, wait_ok, kill_ok, eq \in BOOLEAN :
       calls = <<[Call("run", "run", "None", NoRow, "") EXCEPT
                    !.args = [case |-> Case(100, time_limit),
                              run |-> [elapsed |-> elapsed, success |-> success,
                                       wait_ok |-> wait_ok, kill_ok |-> kill_ok,
                                       eq |-> eq]]]>>
  /\ jobs = {}
  /\ queue = [j \in QueueIds |-> 0]
  /\ wk = [w \in Workers |-> IdleWorker]
  /\ crashes = 0
  /\ now = 0
  /\ neutral = "0.0"
  /\ contests = Contests

TimingNext == \E c \in DOMAIN calls : JudgeRun(c)

TimingSpec == TimingInit /\ [][TimingNext]_vars

Runs == {c \in Elems(calls) : c.op = "run" /\ c.pc = "done"}

\* The program of the run exited successfully before the wait ended.
ExitedSuccessfully(c) ==
  /\ c.args.run.wait_ok /\ c.args.run.success
  /\ c.args.case.time_limit # 0 => c.args.run.elapsed <= c.args.case.time_limit + 125000

\* C31: under a nonzero time limit a program that exits successfully after
\* more than the time limit is recorded as TimeLimitExceeded, whatever its
\* output, and adds no score; under the time limit 0 no run is recorded as
\* TimeLimitExceeded.
C31_TimeLimitExceeded ==
  \A c \in Runs :
    /\ (ExitedSuccessfully(c) /\ c.args.case.time_limit # 0
          /\ c.args.run.elapsed > c.args.case.time_limit)
         => c.ret = "TimeLimitExceeded" /\ c.resp[1].add = 0
    /\ c.args.case.time_limit = 0 => c.ret # "TimeLimitExceeded"

\* C31 for the runs whose time is below 2^32 microseconds.
C31_BelowWrap ==
  \A c \in Runs :
    c.args.run.elapsed < 2 ^ 30 =>
      /\ (ExitedSuccessfully(c) /\ c.args.case.time_limit # 0
            /\ c.args.run.elapsed > c.args.case.time_limit)
           => c.ret = "TimeLimitExceeded" /\ c.resp[1].add = 0
      /\ c.args.case.time_limit = 0 => c.ret # "TimeLimitExceeded"

\* The program of the run has not exited when the wait ends.
TimedOut(c) ==
  /\ c.args.run.wait_ok /\ c.args.case.time_limit # 0
  /\ c.args.run.elapsed > c.args.case.time_limit + 125000

\* C33: a program that has not exited at the timeout is killed exactly
\* once; the case is TimeLimitExceeded when the kill succeeds and
\* SystemError when it fails, and either way the output is not compared
\* and the judge goes on; when the wait fails the child is killed once
\* and the case is SystemError.
C33_KilledOnce ==
  \A c \in Runs :
    /\ TimedOut(c) =>
         /\ c.resp[1].kills = 1
         /\ c.ret = IF c.args.run.kill_ok THEN "TimeLimitExceeded" ELSE "SystemError"
         /\ c.resp[1].add = 0 /\ c.resp[1].kind # "panic"
    /\ ~ c.args.run.wait_ok =>
         /\ c.resp[1].kills = 1 /\ c.ret = "SystemError"
         /\ c.resp[1].add = 0 /\ c.resp[1].kind # "panic"
    /\ (c.args.run.wait_ok /\ ~ TimedOut(c)) => c.resp[1].kills = 0

\* A program that would print the answer is not killable at the timeout:
\* one kill, SystemError.
C33_KillFailed ==
  \E c \in Runs :
    /\ TimedOut(c) /\ ~ c.args.run.kill_ok /\ c.args.run.eq
    /\ c.resp[1].kills = 1 /\ c.ret = "SystemError"

(***************************************************************************)
(* The retry loops of new_job (api/jobs.rs): a failed jobs_count or a      *)
(* failed insert is logged and tried again with the same row.              *)
(***************************************************************************)
\* jobs_count fails: the loop warns and calls it again.
NewJobCountRetry(c) ==
  /\ calls[c].op = "new_job" /\ calls[c].pc = "count"
  /\ calls' = [calls EXCEPT ![c].msg = "Database error; retrying"]
  /\ UNCHANGED <<jobs, queue, wk, crashes, now, neutral, contests>>

\* The insert fails, for a fault of the store or for the primary key of
\* the row being taken: the loop warns and inserts the same row again.
NewJobInsertRetry(c) ==
  /\ calls[c].op = "new_job" /\ calls[c].pc = "insert"
  /\ calls' = [calls EXCEPT ![c].msg = "Database error; retrying"]
  /\ UNCHANGED <<jobs, queue, wk, crashes, now, neutral, contests>>

\* The retry specification: concurrent new_job requests; the store faults
\* at any attempt, but not for ever: a call that can succeed does in the
\* end, and a publish ends one way or the other.
RetryNext ==
  \/ \E sub \in SchedSubs : NewJobCheck(sub, MaxCalls)
  \/ \E c \in DOMAIN calls : NewJobCreated(c)
  \/ \E c \in DOMAIN calls : NewJobCount(c)
  \/ \E c \in DOMAIN calls : NewJobCountRetry(c)
  \/ \E c \in DOMAIN calls : NewJobInsert(c)
  \/ \E c \in DOMAIN calls : NewJobInsertRetry(c)
  \/ \E c \in DOMAIN calls : QueueJob(c)
  \/ \E c \in DOMAIN calls : QueueJobFails(c)

RetrySpec ==
  /\ Init /\ [][RetryNext]_vars
  /\ \A c \in 1..MaxCalls :
       /\ WF_vars(c \in DOMAIN calls /\ NewJobCreated(c))
       /\ WF_vars(c \in DOMAIN calls /\ NewJobCount(c))
       /\ WF_vars(c \in DOMAIN calls /\ NewJobInsert(c))
       /\ WF_vars(c \in DOMAIN calls /\ (QueueJob(c) \/ QueueJobFails(c)))

\* C32: every new_job call that passed validation eventually returns, the
\* store faulting only transiently, also when another call inserted a job
\* with the id the call computed from jobs_count.
C32_NewJobReturns ==
  \A c \in 1..MaxCalls :
    (c \in DOMAIN calls /\ calls[c].pc = "created")
      ~> (c \in DOMAIN calls /\ calls[c].pc = "done")

\* C32 but for the calls whose id another call has taken.
C32_ReturnsUnlessIdTaken ==
  \A c \in 1..MaxCalls :
    (c \in DOMAIN calls /\ calls[c].pc = "created")
      ~> /\ c \in DOMAIN calls
         /\ \/ calls[c].pc = "done"
            \/ calls[c].pc = "insert" /\ ~ InsertAllowed(jobs, calls[c].row)

\* The pcs of a worker that is judging: the next step writes the job.
Judging == {"start", "compile", "case"}

\* C34: a worker that exits while judging job J (so on a failed update of
\* the store) acks nothing and publishes nothing: the store is as it was
\* and the one change of the queue is that the delivery of J is ready
\* again; and a worker comes to the ack of a job that it did not find
\* Canceled only with the Finished record of the job in the store.
C34_ExitLeavesDelivery ==
  [][\A w \in Workers :
       /\ (wk[w].pc \in Judging /\ wk'[w].pc = "crashed") =>
            /\ jobs' = jobs
            /\ queue' = [queue EXCEPT ![wk[w].deliv] = @ + 1]
            /\ wk'[w].deliv = NoJob
       /\ (wk[w].pc # "ack" /\ wk'[w].pc = "ack" /\ wk[w].pc # "recv") =>
            /\ wk'[w].job.state = "Finished"
            /\ wk'[w].job.id = wk'[w].deliv
            /\ wk'[w].job \in jobs'
       /\ (wk[w].pc = "recv" /\ wk'[w].pc = "ack") =>
            \E r \in jobs : r.id = wk[w].deliv /\ r.state = "Canceled"
       /\ (wk'[w].pc = "idle" /\ wk[w].pc # "idle") => wk[w].pc = "ack"]_vars

\* A worker exited while judging job 0 after a case was written: the job
\* is Running in the store, its message is ready again, the other worker
\* is alive.
C34_RedeliveryReady ==
  \E w \in Workers :
    /\ wk[w].pc = "crashed"
    /\ \E r \in jobs : r.id = 0 /\ r.state = "Running" /\ queue[0] = 1
    /\ \E v \in Workers : wk[v].pc = "idle"

\* The step in which call c of operation op writes its row.
Writes(c, op) ==
  /\ c \in DOMAIN calls /\ calls[c].op = op
  /\ calls[c].pc = "update" /\ calls'[c].pc # "update"

\* C35: created_time <= updated_time for every stored job; no step changes
\* the created_time of a stored job; the write of a rejudge sets
\* updated_time to the time the request took as the current time; the
\* write of a cancel changes neither timestamp of the job.
C35_Timestamps ==
  [][/\ \A r \in jobs' : r.created <= r.updated
     /\ \A r \in jobs : \E q \in jobs' : q.id = r.id /\ q.created = r.created
     /\ \A c \in DOMAIN calls :
          Moves(c, "rejudge_job", "now", "update") => calls'[c].row.updated = now
     /\ \A c \in DOMAIN calls : \A r \in jobs : \A q \in jobs' :
          (Writes(c, "rejudge_job") /\ r.id = calls[c].jid /\ q.id = r.id)
            => q.updated = calls[c].row.updated /\ q.created = r.created
     /\ \A c \in DOMAIN calls : \A r \in jobs : \A q \in jobs' :
          (Writes(c, "cancel_job") /\ r.id = calls[c].jid /\ q.id = r.id)
            => q.updated = r.updated /\ q.created = r.created]_vars

\* C35 but for the updated_time across the write of a cancel.
C35_CreatedKept ==
  [][/\ \A r \in jobs' : r.created <= r.updated
     /\ \A r \in jobs : \E q \in jobs' : q.id = r.id /\ q.created = r.created
     /\ \A c \in DOMAIN calls : \A r \in jobs : \A q \in jobs' :
          (Writes(c, "rejudge_job") /\ r.id = calls[c].jid /\ q.id = r.id)
            => q.updated = calls[c].row.updated /\ q.created = r.created]_vars

\* C36: for every contest, user and problem, the stored jobs of the user on
\* the problem in the contest are never more than the submission limit of
\* the contest, the largest that one of the requests that submitted them
\* loaded, however concurrent new_job calls interleave.
C36_LimitNeverExceeded ==
  \A k \in DOMAIN contests : \A u \in Users : \A p \in ProblemIds :
    LET rows == {r \in jobs : r.uid = u /\ r.pid = p /\ r.cid = k}
    IN rows # {} =>
         \E c \in DOMAIN calls :
           /\ calls[c].op = "new_job" /\ calls[c].pc \in {"publish", "done"}
           /\ \E r \in rows : r.id = calls[c].row.id
           /\ Cardinality(rows) <= calls[c].contest.submission_limit

\* The reasons with which new_job refuses a submission in its checks.
ValidationFailures == {"NotFound", "InvalidArgument", "RateLimit"}

\* C37: a new_job call that fails a check leaves the store as it is, the
\* count of jobs included, publishes no message and takes no further step;
\* every stored job was inserted by a call that passed the checks.
C37_FailedValidationChangesNothing ==
  [][/\ \A c \in DOMAIN calls' :
          (calls'[c].op = "new_job" /\ calls'[c].ret \in ValidationFailures) =>
            IF c \in DOMAIN calls /\ calls[c].pc = "done"
              THEN calls'[c] = calls[c]
              ELSE /\ jobs' = jobs /\ queue' = queue
                   /\ Cardinality(jobs') = Cardinality(jobs)
                   /\ calls'[c].pc = "done" /\ calls'[c].row = NoRow
     /\ \A r \in jobs' :
          \E c \in DOMAIN calls' :
            /\ calls'[c].op = "new_job" /\ calls'[c].row.id = r.id
            /\ calls'[c].ret \notin ValidationFailures]_vars

\* A submission over the limit of its contest was refused with one job in
\* the store and nothing in the queue.
C37_RefusedOverLimit ==
  \E c \in DOMAIN calls :
    /\ calls[c].op = "new_job" /\ calls[c].ret = "RateLimit"
    /\ Cardinality(jobs) = 1
    /\ \A j \in QueueIds : queue[j] = 0

(***************************************************************************)
(* The ranklist while jobs are written: get_rank_list reads the store for  *)
(* the metrics and again for the scores of the response, one query after   *)
(* the other; new_job, rejudge_job and a worker write in between.          *)
(***************************************************************************)
\* A job of user 1 on problem 0 has been judged: both outputs equal the
\* answer, the delivery is acked.
RankRaceInit ==
  /\ jobs = {JudgedRow(NewJobRow(0, Submission("Rust", 0, 1, 0), 0),
                       RankEnvs(Len(get_problem(0).cases), Len(get_problem(0).cases)))}
  /\ queue = [j \in QueueIds |-> 0]
  /\ calls = <<>>
  /\ wk = [w \in Workers |-> IdleWorker]
  /\ crashes = 0
  /\ now = 0
  /\ neutral \in Neutrals
  /\ contests = Contests

RankRaceNext ==
  \/ \E rule \in ScoringRules, tb \in TieBreakers : RankListStart(0, rule, tb, MaxCalls)
  \/ \E c \in DOMAIN calls : RankListStep(c)
  \/ NewJobCheck(Submission("Rust", 0, 1, 0), MaxCalls)
  \/ \E c \in DOMAIN calls : NewJobCreated(c)
  \/ \E c \in DOMAIN calls : NewJobCount(c)
  \/ \E c \in DOMAIN calls : NewJobInsert(c)
  \/ RejudgeLoad(0, MaxCalls)
  \/ \E c \in DOMAIN calls : RejudgeGet(c)
  \/ \E c \in DOMAIN calls : RejudgeNow(c)
  \/ \E c \in DOMAIN calls : RejudgeUpdate(c)
  \/ \E c \in DOMAIN calls : RejudgeSelect(c)
  \/ \E c \in DOMAIN calls : QueueJob(c)
  \/ \E jid \in QueueIds : Receive(1, jid)
  \/ Load(1)
  \/ SetRunning(1)
  \/ Compile(1, "success")
  \/ \E e \in CheckEnvs : RunCase(1, e)
  \/ Finalize(1)
  \/ Ack(1)

RankRaceSpec == RankRaceInit /\ [][RankRaceNext]_vars

\* The sum of the scores a row of a response displays.
DisplayedSum(item) ==
  SumOver([k \in 1..Len(item.scores) |-> item.scores[k]], 1..Len(item.scores))

\* C38: in every ranklist response the total by which a row was ordered
\* and ranked is the sum of the scores the row displays, so no row with a
\* larger displayed sum comes after, or has a larger rank than, a row with
\* a smaller one.
C38_OrderedByDisplayedScores ==
  \A c \in Ranklists :
    LET resp == calls[c].resp
        rank_list == calls[c].rank_list
    IN /\ \A i \in 1..Len(resp) : TotalOf(rank_list[i]) = DisplayedSum(resp[i])
       /\ \A i, k \in 1..Len(resp) :
            DisplayedSum(resp[k]) > DisplayedSum(resp[i])
              => k < i /\ resp[k].rank <= resp[i].rank


(***************************************************************************)
(* What a rejudge leaves alone.                                            *)
(***************************************************************************)
\* The call takes a step of rejudge_job: it starts, or goes on.
RejudgeSteps(c) ==
  /\ c \in DOMAIN calls' /\ calls'[c].op = "rejudge_job"
  /\ c \in DOMAIN calls => calls'[c] # calls[c]

\* The fields of a job a rejudge does not write.
Kept(r) ==
  [id |-> r.id, created |-> r.created, lang |-> r.lang, uid |-> r.uid,
   cid |-> r.cid, pid |-> r.pid, ncases |-> Len(r.cases)]

\* C39: a step of rejudge_job changes at most state, result, score, cases
\* and updated_time of the job of the request: the id, created_time,
\* submission and number of cases of every stored job are the same before
\* and after it, and so are the set of job ids and every
\* get_submission_count.
C39_RejudgeFrame ==
  [][\A c \in DOMAIN calls' :
       RejudgeSteps(c) =>
         /\ {r.id : r \in jobs'} = {r.id : r \in jobs}
         /\ {Kept(r) : r \in jobs'} = {Kept(r) : r \in jobs}
         /\ \A r \in jobs : r.id # calls'[c].jid => r \in jobs'
         /\ \A uid \in Users, pid \in ProblemIds, cid \in {0} \cup DOMAIN ApiContests :
              get_submission_count(jobs', uid, pid, cid)
                = get_submission_count(jobs, uid, pid, cid)]_vars

\* A rejudge has written the job: it is Queueing again with score 0 and a
\* later updated_time, one Waiting case for each case it had.
C39_Rejudged ==
  \E c \in DOMAIN calls : \E r \in jobs :
    /\ calls[c].op = "rejudge_job" /\ calls[c].pc \in {"publish", "done"}
    /\ calls[c].ret \in {"", "Ok"}
    /\ r.id = calls[c].jid /\ r.state = "Queueing" /\ r.score = 0
    /\ r.updated > r.created
    /\ r.cases = WaitingCases(Len(get_problem(r.pid).cases) + 1)

====
